---------------------------- MODULE Spec2Model ----------------------------
(***************************************************************************)
(* A model of the Friday voice assistant (src/Friday.py and                *)
(* src/music_library.py): the session loop run(), the command router       *)
(* handle_voice_command(), the expression normaliser voice_calculator(),   *)
(* the reminder threads of set_reminder_voice() and the conversation       *)
(* buffer kept by ask_llama().                                             *)
(*                                                                         *)
(* Python strings are modelled as sequences of one-character strings, so   *)
(* that substring tests, replace(), strip() and split() are computed the   *)
(* way the interpreter computes them.                                      *)
(***************************************************************************)
EXTENDS Integers, Sequences, FiniteSets, TLC

VARIABLES
    pc,                     \* position of the main thread in run()
    cycles,                 \* wake-word cycles started so far (bounded)
    wake_word,              \* run(): the last transcript captured at line 539
    command,                \* run(): the last transcript captured at line 548
    result,                 \* run(): what handle_voice_command returned
    branch,                 \* the if/elif branch of handle_voice_command that ran
    spoken,                 \* texts passed to speak() by the main thread in this cycle
    opened,                 \* URLs passed to webbrowser.open in this cycle
    pressed,                \* keys passed to pyautogui.press in this cycle
    heard,                  \* transcripts captured by listen() inside the handler
    interrupted,            \* a KeyboardInterrupt reached run()
    raised,                 \* the exception run() caught in this cycle, or "none"
    llama_client,           \* self.llama_client is not None
    PYAUTOGUI_AVAILABLE,    \* module flags set by the optional imports
    WIKIPEDIA_AVAILABLE,
    REQUESTS_AVAILABLE,
    conversation_context,   \* self.conversation_context
    appended,               \* every turn ever appended to the buffer, in order
    messages,               \* the messages of the last chat request sent
    response,               \* what the last call of ask_llama returned
    requested,              \* URLs passed to requests.get so far
    active_reminders,       \* self.active_reminders
    threads,                \* the reminder threads started so far
    expression,             \* voice_calculator: its argument
    normalized,             \* voice_calculator: the string handed to eval
    answer,                 \* voice_calculator: its return value
    calc_pc,                \* voice_calculator: "call" before, "done" after
    clock,                  \* int(time.time()): the current second
    files,                  \* the voice_<second>.mp3 files on disk: second -> text saved
    speakers                \* the invocations of speak() under way

vars == <<pc, cycles, wake_word, command, result, branch, spoken, opened, pressed,
          heard, interrupted, raised, llama_client, PYAUTOGUI_AVAILABLE, WIKIPEDIA_AVAILABLE,
          REQUESTS_AVAILABLE, conversation_context, appended, messages,
          response, requested, active_reminders, threads, expression, normalized,
          answer, calc_pc, clock, files, speakers>>

sessionVars == <<pc, cycles, wake_word, command, result, branch, spoken, opened,
                 pressed, heard, interrupted, raised>>
envVars == <<llama_client, PYAUTOGUI_AVAILABLE, WIKIPEDIA_AVAILABLE, REQUESTS_AVAILABLE>>
contextVars == <<conversation_context, appended, messages, response>>
weatherVars == <<requested>>
reminderVars == <<active_reminders, threads>>
calcVars == <<expression, normalized, answer, calc_pc>>
speakVars == <<clock, files, speakers>>

(***************************************************************************)
(* Bounds of the model.                                                    *)
(***************************************************************************)
MaxCycles == 2      \* wake-word cycles per session
MaxMinutes == 1     \* largest reminder delay spoken
MaxTerms == 3       \* operands in a spoken arithmetic chain
MaxAppends == 26    \* turns appended to the conversation buffer

(***************************************************************************)
(* Python str operations.                                                  *)
(***************************************************************************)
\* sub in s
Contains(s, sub) ==
    \E i \in 0..(Len(s) - Len(sub)) : SubSeq(s, i + 1, i + Len(sub)) = sub

\* any(k in s for k in table)
ContainsAny(s, table) == \E k \in DOMAIN table : Contains(s, table[k])

\* s.startswith(p)
StartsWith(s, p) == Len(s) >= Len(p) /\ SubSeq(s, 1, Len(p)) = p

\* s.replace(old, new), old not empty: leftmost non-overlapping occurrences
RECURSIVE Replace(_, _, _)
Replace(s, old, new) ==
    IF Len(s) < Len(old) THEN s
    ELSE IF SubSeq(s, 1, Len(old)) = old
         THEN new \o Replace(SubSeq(s, Len(old) + 1, Len(s)), old, new)
         ELSE <<s[1]>> \o Replace(Tail(s), old, new)

\* s.lstrip(), s.rstrip(), s.strip()
RECURSIVE LStrip(_)
LStrip(s) == IF s # <<>> /\ s[1] = " " THEN LStrip(Tail(s)) ELSE s

RECURSIVE RStrip(_)
RStrip(s) ==
    IF s # <<>> /\ s[Len(s)] = " " THEN RStrip(SubSeq(s, 1, Len(s) - 1)) ELSE s

Strip(s) == RStrip(LStrip(s))

\* s.split(): the maximal runs of non-blank characters
RECURSIVE Split(_)
Split(s) ==
    LET t == LStrip(s)
        n == IF \E i \in DOMAIN t : t[i] = " "
             THEN (CHOOSE i \in DOMAIN t : t[i] = " " /\ \A j \in 1..(i - 1) : t[j] # " ") - 1
             ELSE Len(t)
    IN  IF t = <<>> THEN <<>>
        ELSE <<SubSeq(t, 1, n)>> \o Split(SubSeq(t, n + 1, Len(t)))

Digits == <<"0", "1", "2", "3", "4", "5", "6", "7", "8", "9">>

IsDigit(c) == \E d \in DOMAIN Digits : Digits[d] = c

DigitVal(c) == (CHOOSE d \in DOMAIN Digits : Digits[d] = c) - 1

IsLetter(c) ==
    c \in {"a", "b", "c", "d", "e", "f", "g", "h", "i", "j", "k", "l", "m",
           "n", "o", "p", "q", "r", "s", "t", "u", "v", "w", "x", "y", "z", "_"}

\* int(s) for a string of digits
RECURSIVE ParseInt(_)
ParseInt(s) ==
    IF s = <<>> THEN 0
    ELSE 10 * ParseInt(SubSeq(s, 1, Len(s) - 1)) + DigitVal(s[Len(s)])

\* str(n) for a natural number n, and for any integer
RECURSIVE NatToStr(_)
NatToStr(n) ==
    IF n < 10 THEN <<Digits[n + 1]>>
    ELSE NatToStr(n \div 10) \o <<Digits[(n % 10) + 1]>>

IntToStr(n) == IF n < 0 THEN <<"-">> \o NatToStr(0 - n) ELSE NatToStr(n)

\* the index after the run of characters satisfying the test that starts at i
RECURSIVE DigitRunEnd(_, _)
DigitRunEnd(s, i) ==
    IF i <= Len(s) /\ IsDigit(s[i]) THEN DigitRunEnd(s, i + 1) ELSE i

RECURSIVE NameRunEnd(_, _)
NameRunEnd(s, i) ==
    IF i <= Len(s) /\ (IsLetter(s[i]) \/ IsDigit(s[i])) THEN NameRunEnd(s, i + 1) ELSE i

(***************************************************************************)
(* eval(expression) at line 361, for the strings voice_calculator can hand *)
(* it from spoken words: decimal integers, the operators + - * / **,       *)
(* blanks and identifiers (no parentheses, no Python keywords).  A value   *)
(* is an int, a float (kept as the exact fraction n/d; "real" stands for a *)
(* float this model does not compute) or an object bound to a name.        *)
(***************************************************************************)
Tok(t, n, s) == [t |-> t, n |-> n, s |-> s]

BadToken == Tok("bad", 0, <<>>)

RECURSIVE Tokenize(_, _)
Tokenize(s, i) ==
    IF i > Len(s) THEN <<>>
    ELSE IF s[i] = " " THEN Tokenize(s, i + 1)
    ELSE IF IsDigit(s[i]) THEN
        LET j == DigitRunEnd(s, i)
            lit == SubSeq(s, i, j - 1)
        IN  IF j <= Len(s) /\ IsLetter(s[j]) THEN <<BadToken>>      \* "9teen": invalid decimal literal
            ELSE IF Len(lit) > 1 /\ lit[1] = "0" /\ ParseInt(lit) # 0
                 THEN <<BadToken>>                                  \* leading zeros
                 ELSE <<Tok("num", ParseInt(lit), <<>>)>> \o Tokenize(s, j)
    ELSE IF IsLetter(s[i]) THEN
        LET j == NameRunEnd(s, i)
        IN  <<Tok("name", 0, SubSeq(s, i, j - 1))>> \o Tokenize(s, j)
    ELSE IF s[i] = "*" /\ i < Len(s) /\ s[i + 1] = "*"
         THEN <<Tok("op", 0, <<"*", "*">>)>> \o Tokenize(s, i + 2)
    ELSE IF s[i] \in {"+", "-", "*", "/"}
         THEN <<Tok("op", 0, <<s[i]>>)>> \o Tokenize(s, i + 1)
    ELSE <<BadToken>>

\* The lower-case names bound in the module's globals by the imports of
\* lines 7-16 and 45-71, and two of the builtins: eval resolves a bare name to
\* the object it is bound to.  The repr of a module also names its file.
EvalGlobals ==
    << <<<<"o","s">>, <<"<","m","o","d","u","l","e"," ","'","o","s","'",">">>>>,
       <<<<"s","y","s">>, <<"<","m","o","d","u","l","e"," ","'","s","y","s","'"," ","(","b","u","i","l","t","-","i","n",")",">">>>>,
       <<<<"t","i","m","e">>, <<"<","m","o","d","u","l","e"," ","'","t","i","m","e","'"," ","(","b","u","i","l","t","-","i","n",")",">">>>>,
       <<<<"d","a","t","e","t","i","m","e">>, <<"<","m","o","d","u","l","e"," ","'","d","a","t","e","t","i","m","e","'",">">>>>,
       <<<<"r","a","n","d","o","m">>, <<"<","m","o","d","u","l","e"," ","'","r","a","n","d","o","m","'",">">>>>,
       <<<<"w","e","b","b","r","o","w","s","e","r">>, <<"<","m","o","d","u","l","e"," ","'","w","e","b","b","r","o","w","s","e","r","'",">">>>>,
       <<<<"s","u","b","p","r","o","c","e","s","s">>, <<"<","m","o","d","u","l","e"," ","'","s","u","b","p","r","o","c","e","s","s","'",">">>>>,
       <<<<"t","h","r","e","a","d","i","n","g">>, <<"<","m","o","d","u","l","e"," ","'","t","h","r","e","a","d","i","n","g","'",">">>>>,
       <<<<"j","s","o","n">>, <<"<","m","o","d","u","l","e"," ","'","j","s","o","n","'",">">>>>,
       <<<<"r","e">>, <<"<","m","o","d","u","l","e"," ","'","r","e","'",">">>>>,
       <<<<"p","l","a","y","s","o","u","n","d">>, <<"<","m","o","d","u","l","e"," ","'","p","l","a","y","s","o","u","n","d","'",">">>>>,
       <<<<"s","u","m">>, <<"<","b","u","i","l","t","-","i","n"," ","f","u","n","c","t","i","o","n"," ","s","u","m",">">>>>,
       <<<<"m","a","x">>, <<"<","b","u","i","l","t","-","i","n"," ","f","u","n","c","t","i","o","n"," ","m","a","x",">">>>> >>

IntV(n) == [k |-> "int", n |-> n, d |-> 1, r |-> <<>>]
ObjV(r) == [k |-> "obj", n |-> 0, d |-> 1, r |-> r]
RealV == [k |-> "real", n |-> 0, d |-> 1, r |-> <<>>]

RECURSIVE Gcd(_, _)
Gcd(a, b) == IF b = 0 THEN a ELSE Gcd(b, a % b)

Abs(n) == IF n < 0 THEN 0 - n ELSE n

\* the float n/d, d # 0, in lowest terms with a positive denominator
FloatV(n, d) ==
    LET g == Gcd(Abs(n), Abs(d))
        sg == IF d < 0 THEN 0 - 1 ELSE 1
    IN  [k |-> "float", n |-> sg * (n \div g), d |-> Abs(d) \div g, r |-> <<>>]

RECURSIVE IPow(_, _)
IPow(b, e) == IF e = 0 THEN 1 ELSE b * IPow(b, e - 1)

Ok(v, i) == [ok |-> TRUE, v |-> v, i |-> i]
Err == [ok |-> FALSE, v |-> IntV(0), i |-> 0]     \* SyntaxError, NameError, TypeError, ZeroDivisionError

IsNum(v) == v.k \in {"int", "float"}

\* a + b, a - b, a * b, a / b and a ** b on values, as the parse result that
\* ends at token i; Err where Python raises
BinOp(op, a, b, i) ==
    IF a.k = "obj" \/ b.k = "obj" THEN Err                           \* TypeError
    ELSE IF op = <<"/">> /\ IsNum(b) /\ b.n = 0 THEN Err             \* ZeroDivisionError
    ELSE IF a.k = "real" \/ b.k = "real" THEN Ok(RealV, i)
    ELSE IF op = <<"+">> THEN
        IF a.k = "int" /\ b.k = "int" THEN Ok(IntV(a.n + b.n), i)
        ELSE Ok(FloatV(a.n * b.d + b.n * a.d, a.d * b.d), i)
    ELSE IF op = <<"-">> THEN
        IF a.k = "int" /\ b.k = "int" THEN Ok(IntV(a.n - b.n), i)
        ELSE Ok(FloatV(a.n * b.d - b.n * a.d, a.d * b.d), i)
    ELSE IF op = <<"*">> THEN
        IF a.k = "int" /\ b.k = "int" THEN Ok(IntV(a.n * b.n), i)
        ELSE Ok(FloatV(a.n * b.n, a.d * b.d), i)
    ELSE IF op = <<"/">> THEN Ok(FloatV(a.n * b.d, a.d * b.n), i)
    ELSE \* op = "**"
        IF b.d # 1 THEN Ok(RealV, i)
        ELSE IF b.n >= 0 THEN
            IF a.k = "int" /\ b.k = "int" THEN Ok(IntV(IPow(a.n, b.n)), i)
            ELSE Ok(FloatV(IPow(a.n, b.n), IPow(a.d, b.n)), i)
        ELSE IF a.n = 0 THEN Err                                     \* ZeroDivisionError
        ELSE Ok(FloatV(IPow(a.d, 0 - b.n), IPow(a.n, 0 - b.n)), i)

\* +a and -a
Unary(op, a, i) ==
    IF a.k = "obj" THEN Err                                          \* TypeError
    ELSE IF a.k = "real" \/ op = <<"+">> THEN Ok(a, i)
    ELSE Ok([a EXCEPT !.n = 0 - a.n], i)

\* the parse results l and r of two operands joined by op
ApplyBin(op, l, r) == IF l.ok /\ r.ok THEN BinOp(op, l.v, r.v, r.i) ELSE Err

ApplyUnary(op, r) == IF r.ok THEN Unary(op, r.v, r.i) ELSE Err

IsOp(ts, i, ops) == i <= Len(ts) /\ ts[i].t = "op" /\ ts[i].s \in ops

Lookup(name, i) ==
    IF \E g \in DOMAIN EvalGlobals : EvalGlobals[g][1] = name
    THEN Ok(ObjV(EvalGlobals[CHOOSE g \in DOMAIN EvalGlobals : EvalGlobals[g][1] = name][2]), i)
    ELSE Err                                                         \* NameError

\* Python's grammar:  arith: term (('+'|'-') term)*   term: factor (('*'|'/') factor)*
\*                    factor: ('+'|'-') factor | power   power: atom ['**' factor]
\* Each operator parses from token i and gives the value and the next token.
RECURSIVE ParseFactor(_, _)

ParseAtom(ts, i) ==
    IF i > Len(ts) THEN Err
    ELSE IF ts[i].t = "num" THEN Ok(IntV(ts[i].n), i + 1)
    ELSE IF ts[i].t = "name" THEN Lookup(ts[i].s, i + 1)
    ELSE Err

PowerRest(ts, a) ==
    IF a.ok /\ IsOp(ts, a.i, {<<"*", "*">>})
    THEN ApplyBin(<<"*", "*">>, a, ParseFactor(ts, a.i + 1))
    ELSE a

ParsePower(ts, i) == PowerRest(ts, ParseAtom(ts, i))

ParseFactor(ts, i) ==
    IF IsOp(ts, i, {<<"+">>, <<"-">>})
    THEN ApplyUnary(ts[i].s, ParseFactor(ts, i + 1))
    ELSE ParsePower(ts, i)

\* the rest of a term whose first factors gave acc
RECURSIVE TermRest(_, _)
TermRest(ts, acc) ==
    IF acc.ok /\ IsOp(ts, acc.i, {<<"*">>, <<"/">>})
    THEN TermRest(ts, ApplyBin(ts[acc.i].s, acc, ParseFactor(ts, acc.i + 1)))
    ELSE acc

ParseTerm(ts, i) == TermRest(ts, ParseFactor(ts, i))

RECURSIVE ArithRest(_, _)
ArithRest(ts, acc) ==
    IF acc.ok /\ IsOp(ts, acc.i, {<<"+">>, <<"-">>})
    THEN ArithRest(ts, ApplyBin(ts[acc.i].s, acc, ParseTerm(ts, acc.i + 1)))
    ELSE acc

ParseArith(ts, i) == ArithRest(ts, ParseTerm(ts, i))

\* the whole token sequence must be one expression
WholeExpression(ts, e) == IF e.ok /\ e.i = Len(ts) + 1 THEN e ELSE Err

EvalTokens(ts) ==
    IF \E i \in DOMAIN ts : ts[i].t = "bad" THEN Err
    ELSE WholeExpression(ts, ParseArith(ts, 1))

\* eval(s): Err stands for any exception raised
Eval(s) == EvalTokens(Tokenize(s, 1))

\* f"{result}": str() of the value.  A float that is not whole is written
\* float(n/d), and one this model does not compute float(?): their digits are
\* not modelled.
Repr(v) ==
    IF v.k = "int" THEN IntToStr(v.n)
    ELSE IF v.k = "obj" THEN v.r
    ELSE IF v.k = "real" THEN <<"f","l","o","a","t","(","?",")">>
    ELSE IF v.d = 1 THEN IntToStr(v.n) \o <<".","0">>
    ELSE <<"f","l","o","a","t","(">> \o IntToStr(v.n) \o <<"/">> \o IntToStr(v.d) \o <<")">>

(***************************************************************************)
(* voice_calculator (lines 337-364).                                       *)
(***************************************************************************)
word_to_num ==
    << <<<<"z","e","r","o">>, <<"0">>>>, <<<<"o","n","e">>, <<"1">>>>, <<<<"t","w","o">>, <<"2">>>>,
       <<<<"t","h","r","e","e">>, <<"3">>>>, <<<<"f","o","u","r">>, <<"4">>>>, <<<<"f","i","v","e">>, <<"5">>>>,
       <<<<"s","i","x">>, <<"6">>>>, <<<<"s","e","v","e","n">>, <<"7">>>>, <<<<"e","i","g","h","t">>, <<"8">>>>,
       <<<<"n","i","n","e">>, <<"9">>>>, <<<<"t","e","n">>, <<"1","0">>>>, <<<<"e","l","e","v","e","n">>, <<"1","1">>>>,
       <<<<"t","w","e","l","v","e">>, <<"1","2">>>>, <<<<"t","h","i","r","t","e","e","n">>, <<"1","3">>>>, <<<<"f","o","u","r","t","e","e","n">>, <<"1","4">>>>,
       <<<<"f","i","f","t","e","e","n">>, <<"1","5">>>>, <<<<"s","i","x","t","e","e","n">>, <<"1","6">>>>, <<<<"s","e","v","e","n","t","e","e","n">>, <<"1","7">>>>,
       <<<<"e","i","g","h","t","e","e","n">>, <<"1","8">>>>, <<<<"n","i","n","e","t","e","e","n">>, <<"1","9">>>>, <<<<"t","w","e","n","t","y">>, <<"2","0">>>> >>

\* for word, num in word_to_num.items(): expression = expression.replace(word, num)
\* (a dict is iterated in insertion order), from entry i on
RECURSIVE ReplaceWords(_, _)
ReplaceWords(s, i) ==
    IF i > Len(word_to_num) THEN s
    ELSE ReplaceWords(Replace(s, word_to_num[i][1], word_to_num[i][2]), i + 1)

\* the replacements with "times" taken for an addition
ReplaceOperators_TimesAsPlus(s) ==
    LET e1 == Strip(Replace(Replace(s, <<"c","a","l","c","u","l","a","t","e">>, <<>>), <<"w","h","a","t"," ","i","s">>, <<>>))
        e2 == Replace(Replace(e1, <<"p","l","u","s">>, <<"+">>), <<"a","d","d">>, <<"+">>)
        e3 == Replace(Replace(e2, <<"m","i","n","u","s">>, <<"-">>), <<"s","u","b","t","r","a","c","t">>, <<"-">>)
        e4 == Replace(Replace(e3, <<"t","i","m","e","s">>, <<"+">>), <<"m","u","l","t","i","p","l","y">>, <<"*">>)
        e5 == Replace(Replace(e4, <<"d","i","v","i","d","e","d"," ","b","y">>, <<"/">>), <<"d","i","v","i","d","e">>, <<"/">>)
        e6 == Replace(Replace(e5, <<"t","o"," ","t","h","e"," ","p","o","w","e","r"," ","o","f">>, <<"*","*">>), <<"s","q","u","a","r","e","d">>, <<"*","*","2">>)
    IN  Replace(e6, <<"c","u","b","e","d">>, <<"*","*","3">>)

\* lines 341-347: the fillers, strip(), then the operator words
ReplaceOperators(s) ==
    LET e1 == Strip(Replace(Replace(s, <<"c","a","l","c","u","l","a","t","e">>, <<>>), <<"w","h","a","t"," ","i","s">>, <<>>))
        e2 == Replace(Replace(e1, <<"p","l","u","s">>, <<"+">>), <<"a","d","d">>, <<"+">>)
        e3 == Replace(Replace(e2, <<"m","i","n","u","s">>, <<"-">>), <<"s","u","b","t","r","a","c","t">>, <<"-">>)
        e4 == Replace(Replace(e3, <<"t","i","m","e","s">>, <<"*">>), <<"m","u","l","t","i","p","l","y">>, <<"*">>)
        e5 == Replace(Replace(e4, <<"d","i","v","i","d","e","d"," ","b","y">>, <<"/">>), <<"d","i","v","i","d","e">>, <<"/">>)
        e6 == Replace(Replace(e5, <<"t","o"," ","t","h","e"," ","p","o","w","e","r"," ","o","f">>, <<"*","*">>), <<"s","q","u","a","r","e","d">>, <<"*","*","2">>)
    IN  Replace(e6, <<"c","u","b","e","d">>, <<"*","*","3">>)

\* lines 341-359: the string handed to eval
Normalize(s) == ReplaceWords(ReplaceOperators(s), 1)

CalcFailure == <<"I"," ","c","o","u","l","d","n","'","t"," ","c","a","l","c","u","l","a","t","e"," ","t","h","a","t","."," ","P","l","e","a","s","e"," ","t","r","y"," ","r","e","p","h","r","a","s","i","n","g"," ","t","h","e"," ","m","a","t","h"," ","p","r","o","b","l","e","m",".">>

\* lines 362 and 364: what is returned for the outcome e of eval
CalcAnswer(e) == IF e.ok THEN <<"T","h","e"," ","a","n","s","w","e","r"," ","i","s"," ">> \o Repr(e.v) ELSE CalcFailure

voice_calculator(s) == CalcAnswer(Eval(Normalize(s)))

(***************************************************************************)
(* The spoken inputs of the calculator runs: a filler, then a number word, *)
(* a name, two number words joined by an operator word, a chain of up to   *)
(* MaxTerms operands, or a number word with a power word.                  *)
(***************************************************************************)
NumberWords ==
    <<<<"z","e","r","o">>, <<"o","n","e">>, <<"t","w","o">>, <<"t","h","r","e","e">>, <<"f","o","u","r">>, <<"f","i","v","e">>, <<"s","i","x">>,
      <<"s","e","v","e","n">>, <<"e","i","g","h","t">>, <<"n","i","n","e">>, <<"t","e","n">>, <<"e","l","e","v","e","n">>, <<"t","w","e","l","v","e">>,
      <<"t","h","i","r","t","e","e","n">>, <<"f","o","u","r","t","e","e","n">>, <<"f","i","f","t","e","e","n">>, <<"s","i","x","t","e","e","n">>, <<"s","e","v","e","n","t","e","e","n">>,
      <<"e","i","g","h","t","e","e","n">>, <<"n","i","n","e","t","e","e","n">>, <<"t","w","e","n","t","y">>>>

NumberWord(n) == NumberWords[n + 1]

Fillers == {<<>>, <<"w","h","a","t"," ","i","s"," ">>, <<"c","a","l","c","u","l","a","t","e"," ">>}

OperatorWords == {<<"p","l","u","s">>, <<"m","i","n","u","s">>, <<"t","i","m","e","s">>, <<"d","i","v","i","d","e","d"," ","b","y">>}

NameWords == {<<"r","a","n","d","o","m">>, <<"j","s","o","n">>, <<"s","u","m">>, <<"b","a","n","a","n","a">>, <<"m","a","t","h">>, <<>>}

ChainOperands == {<<"z","e","r","o">>, <<"t","w","o">>, <<"s","e","v","e","n">>}

Phrase(a, op, b) == a \o <<" ">> \o op \o <<" ">> \o b

RECURSIVE Chains(_)
Chains(n) ==
    IF n = 1 THEN ChainOperands
    ELSE {Phrase(c, op, w) : c \in Chains(n - 1), op \in OperatorWords, w \in ChainOperands}

CalcPhrases ==
    {NumberWord(n) : n \in 0..20} \cup NameWords
    \cup {Phrase(NumberWord(a), op, NumberWord(b)) : a \in 0..20, op \in OperatorWords, b \in 0..20}
    \cup UNION {Chains(n) : n \in 3..MaxTerms}
    \cup {<<"m","i","n","u","s"," ">> \o NumberWord(n) : n \in 0..20}
    \cup {NumberWord(n) \o w : n \in 0..20, w \in {<<" ","s","q","u","a","r","e","d">>, <<" ","c","u","b","e","d">>}}
    \cup {Phrase(NumberWord(a), <<"t","o"," ","t","h","e"," ","p","o","w","e","r"," ","o","f">>, NumberWord(b)) : a \in 0..20, b \in 0..3}

CalcInputs == {f \o p : f \in Fillers, p \in CalcPhrases}

(***************************************************************************)
(* ask_llama (lines 230-293) and the conversation buffer.                  *)
(***************************************************************************)
ContextCap == 20        \* line 286
HistoryLen == 6         \* line 261

Turn(role, content) == [role |-> role, content |-> content]

\* s[-n:]
LastN(s, n) == IF Len(s) <= n THEN s ELSE SubSeq(s, Len(s) - n + 1, Len(s))

fallback_responses ==
    << <<<<"h","e","l","l","o">>, <<"H","e","l","l","o","!"," ","I","'","m"," ","F","r","i","d","a","y",","," ","y","o","u","r"," ","v","o","i","c","e"," ","a","s","s","i","s","t","a","n","t","."," ","H","o","w"," ","c","a","n"," ","I"," ","h","e","l","p"," ","y","o","u"," ","t","o","d","a","y","?">>>>,
       <<<<"h","o","w"," ","a","r","e"," ","y","o","u">>, <<"I","'","m"," ","d","o","i","n","g"," ","g","r","e","a","t"," ","a","n","d"," ","r","e","a","d","y"," ","t","o"," ","h","e","l","p"," ","y","o","u"," ","w","i","t","h"," ","a","n","y","t","h","i","n","g"," ","y","o","u"," ","n","e","e","d","!">>>>,
       <<<<"w","h","a","t"," ","c","a","n"," ","y","o","u"," ","d","o">>, <<"I"," ","c","a","n"," ","h","e","l","p"," ","w","i","t","h"," ","o","p","e","n","i","n","g"," ","w","e","b","s","i","t","e","s",","," ","t","e","l","l","i","n","g"," ","t","i","m","e",","," ","w","e","a","t","h","e","r"," ","u","p","d","a","t","e","s",","," ","c","a","l","c","u","l","a","t","i","o","n","s",","," ","r","e","m","i","n","d","e","r","s",","," ","a","n","d"," ","m","u","c","h"," ","m","o","r","e","!">>>>,
       <<<<"d","e","f","a","u","l","t">>, <<"I","'","m"," ","s","o","r","r","y",","," ","m","y"," ","A","I"," ","b","r","a","i","n"," ","i","s","n","'","t"," ","f","u","l","l","y"," ","c","o","n","n","e","c","t","e","d"," ","r","i","g","h","t"," ","n","o","w",","," ","b","u","t"," ","I"," ","c","a","n"," ","s","t","i","l","l"," ","h","e","l","p"," ","w","i","t","h"," ","b","a","s","i","c"," ","t","a","s","k","s"," ","l","i","k","e"," ","o","p","e","n","i","n","g"," ","w","e","b","s","i","t","e","s",","," ","t","e","l","l","i","n","g"," ","t","i","m","e",","," ","a","n","d"," ","c","o","n","t","r","o","l","l","i","n","g"," ","y","o","u","r"," ","s","y","s","t","e","m",".">>>> >>

Upper == <<"A", "B", "C", "D", "E", "F", "G", "H", "I", "J", "K", "L", "M",
           "N", "O", "P", "Q", "R", "S", "T", "U", "V", "W", "X", "Y", "Z">>
LowerOf == <<"a", "b", "c", "d", "e", "f", "g", "h", "i", "j", "k", "l", "m",
             "n", "o", "p", "q", "r", "s", "t", "u", "v", "w", "x", "y", "z">>

\* s.lower()
Lower(s) ==
    [i \in DOMAIN s |->
        IF \E u \in DOMAIN Upper : Upper[u] = s[i]
        THEN LowerOf[CHOOSE u \in DOMAIN Upper : Upper[u] = s[i]]
        ELSE s[i]]

\* lines 241-245: the response of the first key that occurs in question.lower()
Fallback(question) ==
    LET q == Lower(question)
    IN  IF \E k \in DOMAIN fallback_responses : Contains(q, fallback_responses[k][1])
        THEN fallback_responses[CHOOSE k \in DOMAIN fallback_responses :
                /\ Contains(q, fallback_responses[k][1])
                /\ \A j \in 1..(k - 1) : ~Contains(q, fallback_responses[j][1])][2]
        ELSE fallback_responses[Len(fallback_responses)][2]

LlamaTrouble == <<"I","'","m"," ","h","a","v","i","n","g"," ","t","r","o","u","b","l","e"," ","c","o","n","n","e","c","t","i","n","g"," ","t","o"," ","m","y"," ","A","I"," ","b","r","a","i","n"," ","r","i","g","h","t"," ","n","o","w",","," ","b","u","t"," ","I","'","m"," ","s","t","i","l","l"," ","h","e","r","e"," ","t","o"," ","h","e","l","p"," ","w","i","t","h"," ","o","t","h","e","r"," ","t","a","s","k","s","!">>

system_prompts ==
    [general |-> <<"Y","o","u"," ","a","r","e"," ","F","r","i","d","a","y",","," ","a"," ","h","e","l","p","f","u","l"," ","v","o","i","c","e"," ","a","s","s","i","s","t","a","n","t",".">>,
     task |-> <<"Y","o","u"," ","a","r","e"," ","F","r","i","d","a","y",","," ","a"," ","v","o","i","c","e"," ","a","s","s","i","s","t","a","n","t"," ","h","e","l","p","i","n","g"," ","w","i","t","h"," ","t","a","s","k","s",".">>,
     creative |-> <<"Y","o","u"," ","a","r","e"," ","F","r","i","d","a","y",","," ","a"," ","c","r","e","a","t","i","v","e"," ","v","o","i","c","e"," ","a","s","s","i","s","t","a","n","t",".">>]

\* lines 258-264: the request
ChatMessages(context, question, context_type) ==
    <<Turn("system", system_prompts[context_type])>>
        \o LastN(context, HistoryLen) \o <<Turn("user", question)>>

\* a cap of one entry less
UpdateContext_Cap19(context, question, ai_response) ==
    LET c == context \o <<Turn("user", question), Turn("assistant", ai_response)>>
    IN  IF Len(c) > ContextCap THEN LastN(c, ContextCap - 1) ELSE c

\* a cap that keeps the oldest turns
UpdateContext_KeepOldest(context, question, ai_response) ==
    LET c == context \o <<Turn("user", question), Turn("assistant", ai_response)>>
    IN  IF Len(c) > ContextCap THEN SubSeq(c, 1, ContextCap) ELSE c

\* lines 282-287: both turns are appended, then the buffer is cut to its cap
UpdateContext(context, question, ai_response) ==
    LET c == context \o <<Turn("user", question), Turn("assistant", ai_response)>>
    IN  IF Len(c) > ContextCap THEN LastN(c, ContextCap) ELSE c

\* What the chat collaborator may do with a request: raise, or answer.
ChatOutcomes == {[ok |-> FALSE, text |-> <<>>], [ok |-> TRUE, text |-> <<"S","u","r","e",".">>]}

\* a call that appends the user turn before the chat request
ask_llama_AppendsFirst(question, context_type, chat) ==
    IF ~llama_client
    THEN [response |-> Fallback(question), context |-> conversation_context,
          appended |-> appended, messages |-> messages]
    ELSE IF ~chat.ok
    THEN [response |-> LlamaTrouble,
          context |-> conversation_context \o <<Turn("user", question)>>,
          appended |-> appended \o <<Turn("user", question)>>,
          messages |-> ChatMessages(conversation_context, question, context_type)]
    ELSE [response |-> chat.text,
          context |-> UpdateContext(conversation_context, question, chat.text),
          appended |-> appended \o <<Turn("user", question), Turn("assistant", chat.text)>>,
          messages |-> ChatMessages(conversation_context, question, context_type)]

\* ask_llama(question, context_type) when the chat call ends as `chat`:
\* the value returned and the state left behind
ask_llama(question, context_type, chat) ==
    IF ~llama_client
    THEN [response |-> Fallback(question), context |-> conversation_context,
          appended |-> appended, messages |-> messages]
    ELSE IF ~chat.ok
    THEN [response |-> LlamaTrouble, context |-> conversation_context,
          appended |-> appended,
          messages |-> ChatMessages(conversation_context, question, context_type)]
    ELSE [response |-> chat.text,
          context |-> UpdateContext(conversation_context, question, chat.text),
          appended |-> appended \o <<Turn("user", question), Turn("assistant", chat.text)>>,
          messages |-> ChatMessages(conversation_context, question, context_type)]

(***************************************************************************)
(* get_weather (lines 295-321).  The credential is the placeholder of line *)
(* 302, so the request of line 309 is never sent.                          *)
(***************************************************************************)
api_key == <<"Y","O","U","R","_","W","E","A","T","H","E","R","_","A","P","I","_","K","E","Y">>

\* the test of the credential before the test of the package
get_weather_KeyFirst(city) ==
    IF api_key = <<"Y","O","U","R","_","W","E","A","T","H","E","R","_","A","P","I","_","K","E","Y">>
    THEN <<"P","l","e","a","s","e"," ","c","o","n","f","i","g","u","r","e"," ","w","e","a","t","h","e","r"," ","A","P","I"," ","k","e","y"," ","f","o","r"," ","w","e","a","t","h","e","r"," ","u","p","d","a","t","e","s",".">>
    ELSE IF ~REQUESTS_AVAILABLE
    THEN <<"W","e","a","t","h","e","r"," ","s","e","r","v","i","c","e"," ","r","e","q","u","i","r","e","s"," ","t","h","e"," ","r","e","q","u","e","s","t","s"," ","p","a","c","k","a","g","e","."," ","P","l","e","a","s","e"," ","i","n","s","t","a","l","l"," ","i","t",".">>
    ELSE <<"W","e","a","t","h","e","r"," ","s","e","r","v","i","c","e"," ","i","s"," ","c","u","r","r","e","n","t","l","y"," ","u","n","a","v","a","i","l","a","b","l","e",".">>

\* lines 297-321; the request of line 309 fails where there is no network
get_weather(city) ==
    IF ~REQUESTS_AVAILABLE
    THEN <<"W","e","a","t","h","e","r"," ","s","e","r","v","i","c","e"," ","r","e","q","u","i","r","e","s"," ","t","h","e"," ","r","e","q","u","e","s","t","s"," ","p","a","c","k","a","g","e","."," ","P","l","e","a","s","e"," ","i","n","s","t","a","l","l"," ","i","t",".">>
    ELSE IF api_key = <<"Y","O","U","R","_","W","E","A","T","H","E","R","_","A","P","I","_","K","E","Y">>
    THEN <<"P","l","e","a","s","e"," ","c","o","n","f","i","g","u","r","e"," ","w","e","a","t","h","e","r"," ","A","P","I"," ","k","e","y"," ","f","o","r"," ","w","e","a","t","h","e","r"," ","u","p","d","a","t","e","s",".">>
    ELSE <<"W","e","a","t","h","e","r"," ","s","e","r","v","i","c","e"," ","i","s"," ","c","u","r","r","e","n","t","l","y"," ","u","n","a","v","a","i","l","a","b","l","e",".">>

\* line 309: the URLs get_weather(city) passes to requests.get
WeatherRequests(city) ==
    IF REQUESTS_AVAILABLE /\ api_key # <<"Y","O","U","R","_","W","E","A","T","H","E","R","_","A","P","I","_","K","E","Y">>
    THEN <<<<"h","t","t","p",":","/","/","a","p","i",".","o","p","e","n","w","e","a","t","h","e","r","m","a","p",".","o","r","g","/","d","a","t","a","/","2",".","5","/","w","e","a","t","h","e","r","?","a","p","p","i","d","=">> \o api_key
            \o <<"&","q","=">> \o city \o <<"&","u","n","i","t","s","=","m","e","t","r","i","c">>>>
    ELSE <<>>

(***************************************************************************)
(* The keyword tables of handle_voice_command (lines 366-528) and the      *)
(* branch its if/elif chain takes.                                         *)
(***************************************************************************)
exit_cmds == <<<<"e","x","i","t">>, <<"q","u","i","t">>, <<"g","o","o","d","b","y","e"," ","f","r","i","d","a","y">>>>
sleep_cmds == <<<<"s","t","o","p"," ","l","i","s","t","e","n","i","n","g">>, <<"s","l","e","e","p"," ","f","r","i","d","a","y">>>>
youtube_sites == <<<<"o","p","e","n"," ","y","o","u","t","u","b","e">>, <<"y","o","u","t","u","b","e">>>>
instagram_sites == <<<<"o","p","e","n"," ","i","n","s","t","a","g","r","a","m">>, <<"i","n","s","t","a","g","r","a","m">>>>
github_sites == <<<<"o","p","e","n"," ","g","i","t","h","u","b">>, <<"g","i","t","h","u","b">>>>
google_sites == <<<<"o","p","e","n"," ","g","o","o","g","l","e">>, <<"g","o","o","g","l","e"," ","s","e","a","r","c","h">>>>
calc_words == <<<<"c","a","l","c","u","l","a","t","e">>, <<"m","a","t","h">>, <<"w","h","a","t"," ","i","s">>, <<"p","l","u","s">>, <<"m","i","n","u","s">>, <<"t","i","m","e","s">>, <<"d","i","v","i","d","e">>>>
reminder_cmds == <<<<"r","e","m","i","n","d"," ","m","e">>, <<"s","e","t"," ","r","e","m","i","n","d","e","r">>>>
info_cmds == <<<<"t","e","l","l"," ","m","e"," ","a","b","o","u","t">>, <<"i","n","f","o","r","m","a","t","i","o","n"," ","a","b","o","u","t">>>>
task_words == <<<<"h","o","w"," ","t","o">>, <<"s","t","e","p","s">>, <<"g","u","i","d","e">>, <<"t","u","t","o","r","i","a","l">>>>
creative_words == <<<<"s","t","o","r","y">>, <<"p","o","e","m">>, <<"c","r","e","a","t","i","v","e">>, <<"i","m","a","g","i","n","e">>>>

\* the chain with the calculator test before the time test
Branch_CalcFirst(c) ==
    IF ContainsAny(c, exit_cmds) THEN "exit"
    ELSE IF ContainsAny(c, sleep_cmds) THEN "sleep"
    ELSE IF ContainsAny(c, youtube_sites) THEN "youtube"
    ELSE IF ContainsAny(c, instagram_sites) THEN "instagram"
    ELSE IF ContainsAny(c, github_sites) THEN "github"
    ELSE IF ContainsAny(c, google_sites) THEN "google"
    ELSE IF ContainsAny(c, calc_words) THEN "calculate"
    ELSE IF Contains(c, <<"t","i","m","e">>) THEN "time"
    ELSE IF Contains(c, <<"d","a","t","e">>) THEN "date"
    ELSE IF Contains(c, <<"w","e","a","t","h","e","r">>) THEN "weather"
    ELSE IF ContainsAny(c, reminder_cmds) THEN "remind"
    ELSE IF Contains(c, <<"v","o","l","u","m","e"," ","u","p">>) THEN "volume up"
    ELSE IF Contains(c, <<"v","o","l","u","m","e"," ","d","o","w","n">>) THEN "volume down"
    ELSE IF Contains(c, <<"m","u","t","e">>) THEN "mute"
    ELSE IF ContainsAny(c, info_cmds) THEN "lookup"
    ELSE IF StartsWith(c, <<"p","l","a","y">>) THEN "play"
    ELSE "converse"

\* the chain with the weather test before the time test
Branch_WeatherFirst(c) ==
    IF ContainsAny(c, exit_cmds) THEN "exit"
    ELSE IF ContainsAny(c, sleep_cmds) THEN "sleep"
    ELSE IF ContainsAny(c, youtube_sites) THEN "youtube"
    ELSE IF ContainsAny(c, instagram_sites) THEN "instagram"
    ELSE IF ContainsAny(c, github_sites) THEN "github"
    ELSE IF ContainsAny(c, google_sites) THEN "google"
    ELSE IF Contains(c, <<"w","e","a","t","h","e","r">>) THEN "weather"
    ELSE IF Contains(c, <<"t","i","m","e">>) THEN "time"
    ELSE IF Contains(c, <<"d","a","t","e">>) THEN "date"
    ELSE IF ContainsAny(c, calc_words) THEN "calculate"
    ELSE IF ContainsAny(c, reminder_cmds) THEN "remind"
    ELSE IF Contains(c, <<"v","o","l","u","m","e"," ","u","p">>) THEN "volume up"
    ELSE IF Contains(c, <<"v","o","l","u","m","e"," ","d","o","w","n">>) THEN "volume down"
    ELSE IF Contains(c, <<"m","u","t","e">>) THEN "mute"
    ELSE IF ContainsAny(c, info_cmds) THEN "lookup"
    ELSE IF StartsWith(c, <<"p","l","a","y">>) THEN "play"
    ELSE "converse"

Branch(c) ==
    IF ContainsAny(c, exit_cmds) THEN "exit"
    ELSE IF ContainsAny(c, sleep_cmds) THEN "sleep"
    ELSE IF ContainsAny(c, youtube_sites) THEN "youtube"
    ELSE IF ContainsAny(c, instagram_sites) THEN "instagram"
    ELSE IF ContainsAny(c, github_sites) THEN "github"
    ELSE IF ContainsAny(c, google_sites) THEN "google"
    ELSE IF Contains(c, <<"t","i","m","e">>) THEN "time"
    ELSE IF Contains(c, <<"d","a","t","e">>) THEN "date"
    ELSE IF Contains(c, <<"w","e","a","t","h","e","r">>) THEN "weather"
    ELSE IF ContainsAny(c, calc_words) THEN "calculate"
    ELSE IF ContainsAny(c, reminder_cmds) THEN "remind"
    ELSE IF Contains(c, <<"v","o","l","u","m","e"," ","u","p">>) THEN "volume up"
    ELSE IF Contains(c, <<"v","o","l","u","m","e"," ","d","o","w","n">>) THEN "volume down"
    ELSE IF Contains(c, <<"m","u","t","e">>) THEN "mute"
    ELSE IF ContainsAny(c, info_cmds) THEN "lookup"
    ELSE IF StartsWith(c, <<"p","l","a","y">>) THEN "play"
    ELSE "converse"

\* lines 520-524
ContextType(c) ==
    IF ContainsAny(c, task_words) THEN "task"
    ELSE IF ContainsAny(c, creative_words) THEN "creative"
    ELSE "general"

\* lines 415-421: the word after the first word "in", Delhi without one
WeatherCity(c) ==
    LET words == Split(c)
    IN  IF Contains(c, <<"i","n">>) /\ \E i \in DOMAIN words : words[i] = <<"i","n">>
        THEN LET k == (CHOOSE i \in DOMAIN words :
                          words[i] = <<"i","n">> /\ \A j \in 1..(i - 1) : words[j] # <<"i","n">>) + 1
             IN  IF k <= Len(words) THEN words[k] ELSE <<"D","e","l","h","i">>
        ELSE <<"D","e","l","h","i">>

\* re.search(r'\d+', s): the first run of digits, <<>> without one
FirstNumber(s) ==
    IF \E i \in DOMAIN s : IsDigit(s[i])
    THEN LET i == CHOOSE i \in DOMAIN s : IsDigit(s[i]) /\ \A j \in 1..(i - 1) : ~IsDigit(s[j])
         IN  SubSeq(s, i, DigitRunEnd(s, i) - 1)
    ELSE <<>>

(***************************************************************************)
(* music_library.music (src/music_library.py lines 4-53).                  *)
(***************************************************************************)
music ==
    << <<<<"s","h","a","p","e"," ","o","f"," ","y","o","u">>, <<"h","t","t","p","s",":","/","/","y","o","u","t","u",".","b","e","/","J","G","w","W","N","G","J","d","v","x","8">>>>,
       <<<<"b","l","i","n","d","i","n","g"," ","l","i","g","h","t","s">>, <<"h","t","t","p","s",":","/","/","y","o","u","t","u",".","b","e","/","4","N","R","X","x","6","U","8","A","B","Q">>>>,
       <<<<"p","e","r","f","e","c","t">>, <<"h","t","t","p","s",":","/","/","y","o","u","t","u",".","b","e","/","2","V","v","-","B","f","V","o","q","4","g">>>>,
       <<<<"s","o","m","e","o","n","e"," ","l","i","k","e"," ","y","o","u">>, <<"h","t","t","p","s",":","/","/","y","o","u","t","u",".","b","e","/","h","L","Q","l","3","W","Q","Q","o","Q","0">>>>,
       <<<<"d","e","s","p","a","c","i","t","o">>, <<"h","t","t","p","s",":","/","/","y","o","u","t","u",".","b","e","/","k","J","Q","P","7","k","i","w","5","F","k">>>>,
       <<<<"b","a","d"," ","g","u","y">>, <<"h","t","t","p","s",":","/","/","y","o","u","t","u",".","b","e","/","D","y","D","f","g","M","O","U","j","C","I">>>>,
       <<<<"u","p","t","o","w","n"," ","f","u","n","k">>, <<"h","t","t","p","s",":","/","/","y","o","u","t","u",".","b","e","/","O","P","f","0","Y","b","X","q","D","m","0">>>>,
       <<<<"h","e","l","l","o">>, <<"h","t","t","p","s",":","/","/","y","o","u","t","u",".","b","e","/","Y","Q","H","s","X","M","g","l","C","9","A">>>>,
       <<<<"t","h","i","n","k","i","n","g"," ","o","u","t"," ","l","o","u","d">>, <<"h","t","t","p","s",":","/","/","y","o","u","t","u",".","b","e","/","l","p","-","E","O","5","I","6","0","K","A">>>>,
       <<<<"r","o","l","l","i","n","g"," ","i","n"," ","t","h","e"," ","d","e","e","p">>, <<"h","t","t","p","s",":","/","/","y","o","u","t","u",".","b","e","/","r","Y","E","D","A","3","J","c","Q","q","w">>>>,
       <<<<"t","u","m"," ","h","i"," ","h","o">>, <<"h","t","t","p","s",":","/","/","y","o","u","t","u",".","b","e","/","I","J","q","0","y","y","W","u","g","1","k">>>>,
       <<<<"k","a","l"," ","h","o"," ","n","a"," ","h","o">>, <<"h","t","t","p","s",":","/","/","y","o","u","t","u",".","b","e","/","t","V","M","A","Q","A","s","j","s","O","U">>>>,
       <<<<"g","e","r","u","a">>, <<"h","t","t","p","s",":","/","/","y","o","u","t","u",".","b","e","/","A","E","I","V","h","B","S","6","b","a","E">>>>,
       <<<<"c","h","a","n","n","a"," ","m","e","r","e","y","a">>, <<"h","t","t","p","s",":","/","/","y","o","u","t","u",".","b","e","/","b","z","S","T","p","d","c","s","-","E","I">>>>,
       <<<<"a","e"," ","d","i","l"," ","h","a","i"," ","m","u","s","h","k","i","l">>, <<"h","t","t","p","s",":","/","/","y","o","u","t","u",".","b","e","/","8","w","U","2","9","t","A","c","V","y","s">>>>,
       <<<<"r","a","a","b","t","a">>, <<"h","t","t","p","s",":","/","/","y","o","u","t","u",".","b","e","/","e","H","J","P","V","R","B","V","3","n","M">>>>,
       <<<<"d","i","l"," ","d","i","y","a","n"," ","g","a","l","l","a","n">>, <<"h","t","t","p","s",":","/","/","y","o","u","t","u",".","b","e","/","S","A","c","p","E","S","N","_","F","k","4">>>>,
       <<<<"i","s","h","q"," ","w","a","l","a"," ","l","o","v","e">>, <<"h","t","t","p","s",":","/","/","y","o","u","t","u",".","b","e","/","3","H","d","G","N","B","T","6","f","a","8">>>>,
       <<<<"g","u","l","a","b","i"," ","a","a","n","k","h","e","i","n">>, <<"h","t","t","p","s",":","/","/","y","o","u","t","u",".","b","e","/","5","M","7","a","V","N","K","f","f","y","s">>>>,
       <<<<"k","a","b","i","r","a">>, <<"h","t","t","p","s",":","/","/","y","o","u","t","u",".","b","e","/","j","H","N","N","M","j","5","b","N","Q","w">>>>,
       <<<<"b","o","h","e","m","i","a","n"," ","r","h","a","p","s","o","d","y">>, <<"h","t","t","p","s",":","/","/","y","o","u","t","u",".","b","e","/","f","J","9","r","U","z","I","M","c","Z","Q">>>>,
       <<<<"i","m","a","g","i","n","e">>, <<"h","t","t","p","s",":","/","/","y","o","u","t","u",".","b","e","/","Y","k","g","k","T","h","d","z","X","-","8">>>>,
       <<<<"h","o","t","e","l"," ","c","a","l","i","f","o","r","n","i","a">>, <<"h","t","t","p","s",":","/","/","y","o","u","t","u",".","b","e","/","B","c","i","S","5","k","r","Y","L","8","0">>>>,
       <<<<"s","w","e","e","t"," ","c","h","i","l","d"," ","o","f"," ","m","i","n","e">>, <<"h","t","t","p","s",":","/","/","y","o","u","t","u",".","b","e","/","1","w","7","O","g","I","M","M","R","c","4">>>>,
       <<<<"s","t","a","i","r","w","a","y"," ","t","o"," ","h","e","a","v","e","n">>, <<"h","t","t","p","s",":","/","/","y","o","u","t","u",".","b","e","/","Q","k","F","3","o","x","z","i","U","I","4">>>>,
       <<<<"a","s"," ","i","t"," ","w","a","s">>, <<"h","t","t","p","s",":","/","/","y","o","u","t","u",".","b","e","/","H","5","v","3","k","k","u","4","y","6","Q">>>>,
       <<<<"h","e","a","t"," ","w","a","v","e","s">>, <<"h","t","t","p","s",":","/","/","y","o","u","t","u",".","b","e","/","m","R","D","0","-","G","x","q","H","V","o">>>>,
       <<<<"s","t","a","y">>, <<"h","t","t","p","s",":","/","/","y","o","u","t","u",".","b","e","/","k","T","J","c","z","U","o","c","2","6","U">>>>,
       <<<<"l","e","v","i","t","a","t","i","n","g">>, <<"h","t","t","p","s",":","/","/","y","o","u","t","u",".","b","e","/","T","U","V","c","Z","f","Q","e","-","K","w">>>>,
       <<<<"g","o","o","d"," ","4"," ","u">>, <<"h","t","t","p","s",":","/","/","y","o","u","t","u",".","b","e","/","g","N","i","_","6","U","5","P","m","_","o">>>>,
       <<<<"l","o","f","i"," ","h","i","p"," ","h","o","p">>, <<"h","t","t","p","s",":","/","/","y","o","u","t","u",".","b","e","/","j","f","K","f","P","f","y","J","R","d","k">>>>,
       <<<<"c","h","i","l","l"," ","m","u","s","i","c">>, <<"h","t","t","p","s",":","/","/","y","o","u","t","u",".","b","e","/","5","q","a","p","5","a","O","4","i","9","A">>>>,
       <<<<"s","t","u","d","y"," ","m","u","s","i","c">>, <<"h","t","t","p","s",":","/","/","y","o","u","t","u",".","b","e","/","7","N","O","S","D","K","b","0","H","l","U">>>>,
       <<<<"m","y"," ","p","l","a","y","l","i","s","t">>, <<"h","t","t","p","s",":","/","/","y","o","u","t","u",".","b","e","/","A","b","k","E","m","I","g","J","M","c","U","?","s","i","=","V","6","E","T","J","m","V","W","D","U","2","z","O","E","t","q">>>>,
       <<<<"w","o","r","k","o","u","t"," ","p","l","a","y","l","i","s","t">>, <<"h","t","t","p","s",":","/","/","y","o","u","t","u",".","b","e","/","i","F","G","c","9","v","p","N","3","3","8">>>>,
       <<<<"p","a","r","t","y"," ","s","o","n","g","s">>, <<"h","t","t","p","s",":","/","/","y","o","u","t","u",".","b","e","/","Z","b","Z","S","e","6","N","_","B","X","s">>>>,
       <<<<"r","o","m","a","n","t","i","c"," ","s","o","n","g","s">>, <<"h","t","t","p","s",":","/","/","y","o","u","t","u",".","b","e","/","I","J","q","0","y","y","W","u","g","1","k">>>> >>

\* song in music_library.music, and music_library.music[song]
InMusic(song) == \E m \in DOMAIN music : music[m][1] = song

MusicUrl(song) == music[CHOOSE m \in DOMAIN music : music[m][1] = song][2]

\* line 504
PlaySong(c) == Strip(Replace(c, <<"p","l","a","y">>, <<>>))

\* lines 507-515: the URL opened by the play branch
PlayUrl(c) ==
    LET song == PlaySong(c)
    IN  IF InMusic(song) THEN MusicUrl(song)
        ELSE <<"h","t","t","p","s",":","/","/","w","w","w",".","y","o","u","t","u","b","e",".","c","o","m","/","r","e","s","u","l","t","s","?","s","e","a","r","c","h","_","q","u","e","r","y","=">> \o Replace(song, <<" ">>, <<"+">>)

\* line 479
LookupTopic(c) == Strip(Replace(Replace(c, <<"t","e","l","l"," ","m","e"," ","a","b","o","u","t">>, <<>>), <<"i","n","f","o","r","m","a","t","i","o","n"," ","a","b","o","u","t">>, <<>>))

(***************************************************************************)
(* listen (lines 203-228): a transcript (lower-cased and stripped),        *)
(* "timeout", or "" after a failure, which listen itself may announce.     *)
(***************************************************************************)
Timeout == <<"t","i","m","e","o","u","t">>

NotUnderstood == <<"I"," ","c","o","u","l","d","n","'","t"," ","u","n","d","e","r","s","t","a","n","d"," ","t","h","a","t","."," ","P","l","e","a","s","e"," ","t","r","y"," ","a","g","a","i","n",".">>
ServiceDown == <<"S","p","e","e","c","h"," ","s","e","r","v","i","c","e"," ","i","s"," ","u","n","a","v","a","i","l","a","b","l","e"," ","r","i","g","h","t"," ","n","o","w",".">>

Heard(t, say) == [t |-> t, say |-> say]

ListenOutcomes(transcripts) ==
    {Heard(t, <<>>) : t \in transcripts \cup {Timeout, <<>>}}
        \cup {Heard(<<>>, <<NotUnderstood>>), Heard(<<>>, <<ServiceDown>>)}

\* if x and x != "timeout"
Usable(t) == t # <<>> /\ t # Timeout

(***************************************************************************)
(* What is said to the assistant in a session.                             *)
(***************************************************************************)
WakeInputs == {<<"h","e","y"," ","f","r","i","d","a","y">>, <<"h","e","l","l","o"," ","t","h","e","r","e">>}

SessionCommands ==
    {<<"e","x","i","t">>, <<"w","h","a","t"," ","t","i","m","e"," ","i","s"," ","i","t"," ","b","e","f","o","r","e"," ","i"," ","q","u","i","t">>, <<"s","t","o","p"," ","l","i","s","t","e","n","i","n","g">>, <<"o","p","e","n"," ","y","o","u","t","u","b","e">>,
     <<"i","n","s","t","a","g","r","a","m">>, <<"o","p","e","n"," ","g","i","t","h","u","b">>, <<"o","p","e","n"," ","g","o","o","g","l","e">>, <<"w","h","a","t"," ","t","i","m","e"," ","i","s"," ","i","t">>,
     <<"w","h","a","t"," ","i","s"," ","t","h","e"," ","d","a","t","e">>, <<"w","e","a","t","h","e","r"," ","i","n"," ","m","u","m","b","a","i">>, <<"w","h","a","t"," ","i","s"," ","f","i","v","e"," ","p","l","u","s"," ","t","h","r","e","e">>,
     <<"r","e","m","i","n","d"," ","m","e">>, <<"v","o","l","u","m","e"," ","u","p">>, <<"v","o","l","u","m","e"," ","d","o","w","n">>, <<"m","u","t","e">>,
     <<"t","e","l","l"," ","m","e"," ","a","b","o","u","t"," ","p","y","t","h","o","n">>, <<"t","e","l","l"," ","m","e"," ","a","b","o","u","t">>, <<"p","l","a","y"," ","d","e","s","p","a","c","i","t","o">>,
     <<"t","e","l","l"," ","m","e"," ","a"," ","s","t","o","r","y">>}

SearchInputs == {<<"p","y","t","h","o","n"," ","t","u","t","o","r","i","a","l","s">>}
TopicInputs == {<<"p","y","t","h","o","n">>}
ReminderInputs == {<<"d","r","i","n","k"," ","w","a","t","e","r">>}

\* what may be answered to "In how many minutes?"
TimeInputs == {<<"i","n"," ">> \o IntToStr(m) \o <<" ","m","i","n","u","t","e","s">> : m \in 0..MaxMinutes} \cup {<<"s","o","o","n">>}

\* datetime.datetime.now() as formatted at lines 404 and 409
ClockTimes == {<<"0","9",":","4","1"," ","A","M">>}
ClockDates == {<<"N","o","v","e","m","b","e","r"," ","0","5",","," ","2","0","2","6">>}

\* what an external call of a handler, or the microphone, may raise
RaisedKinds == {"Exception", "RequestError"}

\* lines 564-571: what run() says about an exception it catches
RunErrorMessage(kind) ==
    IF kind = "RequestError"
    THEN <<"S","p","e","e","c","h"," ","r","e","c","o","g","n","i","t","i","o","n"," ","s","e","r","v","i","c","e"," ","i","s"," ","h","a","v","i","n","g"," ","i","s","s","u","e","s","."," ","P","l","e","a","s","e"," ","c","h","e","c","k"," ","y","o","u","r"," ","i","n","t","e","r","n","e","t"," ","c","o","n","n","e","c","t","i","o","n",".">>
    ELSE <<"I"," ","e","n","c","o","u","n","t","e","r","e","d"," ","a","n"," ","e","r","r","o","r",","," ","b","u","t"," ","I","'","m"," ","s","t","i","l","l"," ","h","e","r","e"," ","t","o"," ","h","e","l","p","!">>

(***************************************************************************)
(* run (lines 530-571).                                                    *)
(***************************************************************************)
\* a loop without the break of line 554
AfterCommand_NoBreak(r) == "listen_wake"

\* lines 553-557: where the loop goes with what the handler returned
AfterCommand(r) == IF r = "exit" THEN "done" ELSE "listen_wake"

\* a loop that takes every transcript for the wake word
IsWake_Any(t) == TRUE

\* "friday" in wake_word (line 544)
IsWake(t) == Contains(t, <<"f","r","i","d","a","y">>)

\* lines 539-545: one capture at the top of the loop
ListenWake ==
    /\ pc = "listen_wake"
    /\ \E o \in ListenOutcomes(WakeInputs) :
        /\ wake_word' = o.t
        /\ IF o.t # Timeout /\ IsWake(o.t)
           THEN /\ cycles < MaxCycles
                /\ cycles' = cycles + 1
                /\ spoken' = o.say \o <<<<"Y","e","s"," ","b","o","s","s",","," ","I","'","m"," ","l","i","s","t","e","n","i","n","g","!">>>>
                /\ pc' = "listen_command"
           ELSE /\ cycles' = cycles
                /\ spoken' = o.say
                /\ pc' = "listen_wake"
    /\ command' = <<>>
    /\ result' = "none"
    /\ branch' = "none"
    /\ opened' = <<>>
    /\ pressed' = <<>>
    /\ heard' = <<>>
    /\ raised' = "none"
    /\ UNCHANGED <<interrupted, envVars, contextVars, reminderVars, calcVars, weatherVars, speakVars>>

\* lines 548-559: the command capture
ListenCommand(commands) ==
    /\ pc = "listen_command"
    /\ \E o \in ListenOutcomes(commands) :
        /\ command' = o.t
        /\ IF Usable(o.t)
           THEN /\ spoken' = spoken \o o.say
                /\ pc' = "handle"
           ELSE /\ spoken' = spoken \o o.say \o <<<<"I","'","m"," ","r","e","a","d","y"," ","w","h","e","n"," ","y","o","u"," ","a","r","e","."," ","J","u","s","t"," ","s","a","y"," ","s","o","m","e","t","h","i","n","g","!">>>>
                /\ pc' = "listen_wake"
    /\ UNCHANGED <<cycles, wake_word, result, branch, opened, pressed, heard, interrupted,
                   raised, envVars, contextVars, reminderVars, calcVars, weatherVars, speakVars>>

\* lines 568-571 (and 564-567): listen raises outside its own try (the
\* microphone cannot be opened); run() reports it and loops
CaptureRaises ==
    /\ pc \in {"listen_wake", "listen_command"}
    /\ \E kind \in RaisedKinds :
        /\ spoken' = (IF pc = "listen_wake" THEN <<>> ELSE spoken) \o <<RunErrorMessage(kind)>>
        /\ raised' = kind
    /\ pc' = "listen_wake"
    /\ UNCHANGED <<cycles, wake_word, command, result, branch, opened, pressed, heard,
                   interrupted, envVars, contextVars, reminderVars, calcVars, weatherVars, speakVars>>

\* lines 561-563: a KeyboardInterrupt inside the try block; one that arrives
\* in an except block leaves run() without the farewell.  Either way run()
\* is left and its locals are gone.
Interrupt ==
    /\ pc # "done"
    /\ \E inTry \in BOOLEAN :
        spoken' = IF inTry THEN <<<<"S","h","u","t","t","i","n","g"," ","d","o","w","n"," ","F","r","i","d","a","y"," ","a","s","s","i","s","t","a","n","t","."," ","G","o","o","d","b","y","e","!">>>> ELSE <<>>
    /\ pc' = "done"
    /\ interrupted' = TRUE
    /\ wake_word' = <<>>
    /\ command' = <<>>
    /\ result' = "none"
    /\ branch' = "none"
    /\ opened' = <<>>
    /\ pressed' = <<>>
    /\ heard' = <<>>
    /\ raised' = "none"
    /\ UNCHANGED <<cycles, envVars, contextVars, reminderVars, calcVars, weatherVars, speakVars>>

(***************************************************************************)
(* handle_voice_command (lines 366-528), one disjunct per branch, together *)
(* with lines 551-557 of run().                                            *)
(***************************************************************************)
\* the handler returns r having said `say`, opened `urls`, pressed `keys`
\* and captured `hs`
Returns(r, say, urls, keys, hs) ==
    /\ result' = r
    /\ pc' = AfterCommand(r)
    /\ spoken' = spoken \o say
    /\ opened' = urls
    /\ pressed' = keys
    /\ heard' = hs
    /\ raised' = raised

\* a loop whose except clauses end it
Raises_Abort(kind, say, hs) ==
    /\ result' = result
    /\ pc' = "done"
    /\ spoken' = spoken \o say \o <<RunErrorMessage(kind)>>
    /\ opened' = <<>>
    /\ pressed' = <<>>
    /\ heard' = hs
    /\ raised' = kind

\* an exception leaves the handler after it said `say` and captured `hs`;
\* run() catches it at line 564 or 568
Raises(kind, say, hs) ==
    /\ result' = result
    /\ pc' = "listen_wake"
    /\ spoken' = spoken \o say \o <<RunErrorMessage(kind)>>
    /\ opened' = <<>>
    /\ pressed' = <<>>
    /\ heard' = hs
    /\ raised' = kind

\* a branch that calls neither ask_llama, set_reminder_voice nor get_weather
Quiet == UNCHANGED <<contextVars, reminderVars, weatherVars>>

HandleExit ==
    /\ Branch(command) = "exit"
    /\ Returns("exit", <<<<"G","o","o","d","b","y","e"," ","b","o","s","s",","," ","F","r","i","d","a","y"," ","i","s"," ","g","o","i","n","g"," ","o","f","f","l","i","n","e","!">>>>, <<>>, <<>>, <<>>)
    /\ Quiet

HandleSleep ==
    /\ Branch(command) = "sleep"
    /\ Returns("sleep", <<<<"I","'","l","l"," ","s","t","o","p"," ","l","i","s","t","e","n","i","n","g","."," ","S","a","y"," ","'","F","r","i","d","a","y","'"," ","t","o"," ","w","a","k","e"," ","m","e"," ","u","p"," ","a","g","a","i","n",".">>>>, <<>>, <<>>, <<>>)
    /\ Quiet

SiteUrl(b) ==
    IF b = "youtube" THEN <<"h","t","t","p","s",":","/","/","y","o","u","t","u","b","e",".","c","o","m">>
    ELSE IF b = "instagram" THEN <<"h","t","t","p","s",":","/","/","i","n","s","t","a","g","r","a","m",".","c","o","m">>
    ELSE <<"h","t","t","p","s",":","/","/","g","i","t","h","u","b",".","c","o","m">>

SiteSpeech(b) ==
    IF b = "youtube" THEN <<"O","p","e","n","i","n","g"," ","Y","o","u","T","u","b","e">>
    ELSE IF b = "instagram" THEN <<"O","p","e","n","i","n","g"," ","I","n","s","t","a","g","r","a","m">>
    ELSE <<"O","p","e","n","i","n","g"," ","G","i","t","H","u","b">>

HandleSite ==
    /\ Branch(command) \in {"youtube", "instagram", "github"}
    /\ Returns("continue", <<SiteSpeech(Branch(command))>>, <<SiteUrl(Branch(command))>>, <<>>, <<>>)
    /\ Quiet

HandleGoogle ==
    /\ Branch(command) = "google"
    /\ \E o \in ListenOutcomes(SearchInputs) :
        Returns("continue",
                <<<<"W","h","a","t"," ","w","o","u","l","d"," ","y","o","u"," ","l","i","k","e"," ","m","e"," ","t","o"," ","s","e","a","r","c","h"," ","f","o","r","?">>>> \o o.say
                    \o (IF Usable(o.t) THEN <<<<"S","e","a","r","c","h","i","n","g"," ","G","o","o","g","l","e"," ","f","o","r"," ">> \o o.t>> ELSE <<>>),
                IF Usable(o.t) THEN <<<<"h","t","t","p","s",":","/","/","w","w","w",".","g","o","o","g","l","e",".","c","o","m","/","s","e","a","r","c","h","?","q","=">> \o o.t>> ELSE <<>>,
                <<>>, <<o.t>>)
    /\ Quiet

HandleTime ==
    /\ Branch(command) = "time"
    /\ \E t \in ClockTimes : Returns("continue", <<<<"I","t","'","s"," ">> \o t>>, <<>>, <<>>, <<>>)
    /\ Quiet

HandleDate ==
    /\ Branch(command) = "date"
    /\ \E d \in ClockDates : Returns("continue", <<<<"T","o","d","a","y"," ","i","s"," ">> \o d>>, <<>>, <<>>, <<>>)
    /\ Quiet

HandleWeather ==
    /\ Branch(command) = "weather"
    /\ Returns("continue", <<get_weather(WeatherCity(command))>>, <<>>, <<>>, <<>>)
    /\ requested' = requested \o WeatherRequests(WeatherCity(command))
    /\ UNCHANGED <<contextVars, reminderVars>>

HandleCalculate ==
    /\ Branch(command) = "calculate"
    /\ Returns("continue", <<voice_calculator(command)>>, <<>>, <<>>, <<>>)
    /\ Quiet


(***************************************************************************)
(* speak (lines 191-201), statement by statement.  The main thread and     *)
(* every reminder thread call it on the same assistant, in the same        *)
(* working directory, with no lock.  The file of an invocation is named    *)
(* after the second in which the name is computed (line 196).              *)
(***************************************************************************)
MaxSeconds == 2     \* seconds the clock advances
MaxSpeakers == 2    \* invocations of speak() that overlap

SpeakTexts ==
    {<<"R","e","m","i","n","d","e","r"," ","a","l","e","r","t","!"," ","d","r","i","n","k"," ","w","a","t","e","r">>, <<"R","e","m","i","n","d","e","r"," ","a","l","e","r","t","!"," ","c","a","l","l"," ","h","o","m","e">>, <<"I","t","'","s"," ","1","0",":","3","0"," ","A","M">>}

\* an invocation at line 195: nothing saved, nothing played
Speaker(text) ==
    [text |-> text, pc |-> "name", filename |-> -1, played |-> <<>>, failed |-> FALSE]

\* the directory with the file f written, and with the file f removed
Written(f, text) == [s \in DOMAIN files \cup {f} |-> IF s = f THEN text ELSE files[s]]

Removed(f) == [s \in DOMAIN files \ {f} |-> files[s]]

SpeakFrame == UNCHANGED <<sessionVars, envVars, contextVars, weatherVars, reminderVars, calcVars>>

\* line 196: filename = f"voice_{int(time.time())}.mp3"
SpeakName(i) ==
    /\ speakers[i].pc = "name"
    /\ speakers' = [speakers EXCEPT ![i].filename = clock, ![i].pc = "save"]
    /\ UNCHANGED <<clock, files>>
    /\ SpeakFrame

\* line 197: tts.save(filename) creates the file or overwrites it
SpeakSave(i) ==
    /\ speakers[i].pc = "save"
    /\ files' = Written(speakers[i].filename, speakers[i].text)
    /\ speakers' = [speakers EXCEPT ![i].pc = "play"]
    /\ UNCHANGED clock
    /\ SpeakFrame

\* line 198: playsound plays what the file holds now, and raises without
\* the file (caught at line 200)
SpeakPlay(i) ==
    /\ speakers[i].pc = "play"
    /\ IF speakers[i].filename \in DOMAIN files
       THEN speakers' = [speakers EXCEPT ![i].played = files[speakers[i].filename],
                                         ![i].pc = "remove"]
       ELSE speakers' = [speakers EXCEPT ![i].failed = TRUE, ![i].pc = "done"]
    /\ UNCHANGED <<clock, files>>
    /\ SpeakFrame

\* line 199: os.remove raises without the file (caught at line 200)
SpeakRemove(i) ==
    /\ speakers[i].pc = "remove"
    /\ IF speakers[i].filename \in DOMAIN files
       THEN /\ files' = Removed(speakers[i].filename)
            /\ speakers' = [speakers EXCEPT ![i].pc = "done"]
       ELSE /\ files' = files
            /\ speakers' = [speakers EXCEPT ![i].failed = TRUE, ![i].pc = "done"]
    /\ UNCHANGED clock
    /\ SpeakFrame

\* a second passes
ClockTick ==
    /\ clock < MaxSeconds
    /\ clock' = clock + 1
    /\ UNCHANGED <<files, speakers>>
    /\ SpeakFrame

\* nobody speaks
SpeakIdle ==
    /\ clock = 0
    /\ files = <<>>
    /\ speakers = <<>>
(***************************************************************************)
(* set_reminder_voice (lines 323-335) and its reminder_thread.             *)
(***************************************************************************)
Reminder(text, minutes) == <<text, minutes>>

\* a thread just started: it sleeps minutes * 60 seconds
NewThread(text, minutes) ==
    [text |-> text, minutes |-> minutes, remaining |-> minutes, pc |-> "sleep",
     alerts |-> 0, said |-> <<>>]

\* a list that keeps one entry per pair
RemindersAfterSet_Unique(text, minutes) ==
    IF \E i \in DOMAIN active_reminders : active_reminders[i] = Reminder(text, minutes)
    THEN active_reminders
    ELSE Append(active_reminders, Reminder(text, minutes))

\* lines 333-335: the list and the threads after the call, and the text returned
RemindersAfterSet(text, minutes) == Append(active_reminders, Reminder(text, minutes))

ThreadsAfterSet(text, minutes) == Append(threads, NewThread(text, minutes))

ReminderSetText(text, minutes) ==
    <<"R","e","m","i","n","d","e","r"," ","s","e","t"," ","f","o","r"," ">> \o IntToStr(minutes) \o <<" ","m","i","n","u","t","e","s",":"," ">> \o text

\* a removal of every element equal to x
RemoveFirst_All(s, x) == SelectSeq(s, LAMBDA e : e # x)

\* list.remove(x): without the first element equal to x
RECURSIVE RemoveFirst(_, _)
RemoveFirst(s, x) ==
    IF s = <<>> THEN <<>>
    ELSE IF s[1] = x THEN Tail(s)
    ELSE <<s[1]>> \o RemoveFirst(Tail(s), x)

InList(s, x) == \E i \in DOMAIN s : s[i] = x

\* the process is alive: the reminder threads are daemon threads (line 334)
\* and end with the main thread
Alive == pc # "done"

\* line 326 has returned; line 327: the alert is spoken
ReminderAlert(i) ==
    /\ Alive
    /\ threads[i].pc = "sleep"
    /\ threads[i].remaining = 0
    /\ threads' = [threads EXCEPT ![i].pc = "check",
                                  ![i].alerts = @ + 1,
                                  ![i].said = <<"R","e","m","i","n","d","e","r"," ","a","l","e","r","t","!"," ">> \o threads[i].text]
    /\ UNCHANGED <<active_reminders, sessionVars, envVars, contextVars, calcVars, weatherVars, speakVars>>

\* line 329: the membership test
ReminderCheck(i) ==
    /\ Alive
    /\ threads[i].pc = "check"
    /\ threads' = [threads EXCEPT ![i].pc =
            IF InList(active_reminders, Reminder(threads[i].text, threads[i].minutes))
            THEN "remove" ELSE "done"]
    /\ UNCHANGED <<active_reminders, sessionVars, envVars, contextVars, calcVars, weatherVars, speakVars>>

\* line 330: list.remove raises ValueError when the element is gone
ReminderRemove(i) ==
    /\ Alive
    /\ threads[i].pc = "remove"
    /\ LET r == Reminder(threads[i].text, threads[i].minutes)
       IN  IF InList(active_reminders, r)
           THEN /\ active_reminders' = RemoveFirst(active_reminders, r)
                /\ threads' = [threads EXCEPT ![i].pc = "done"]
           ELSE /\ active_reminders' = active_reminders
                /\ threads' = [threads EXCEPT ![i].pc = "crashed"]
    /\ UNCHANGED <<sessionVars, envVars, contextVars, calcVars, weatherVars, speakVars>>

\* a minute passes for every thread still in time.sleep
Tick ==
    /\ \E i \in DOMAIN threads : threads[i].pc = "sleep" /\ threads[i].remaining > 0
    /\ threads' = [i \in DOMAIN threads |->
            IF threads[i].pc = "sleep" /\ threads[i].remaining > 0
            THEN [threads[i] EXCEPT !.remaining = @ - 1]
            ELSE threads[i]]
    /\ UNCHANGED <<active_reminders, sessionVars, envVars, contextVars, calcVars, weatherVars, speakVars>>

(***************************************************************************)
(* handle_voice_command, continued.                                        *)
(***************************************************************************)
AskTime == <<"I","n"," ","h","o","w"," ","m","a","n","y"," ","m","i","n","u","t","e","s","?">>
BadTime == <<"I"," ","d","i","d","n","'","t"," ","u","n","d","e","r","s","t","a","n","d"," ","t","h","e"," ","t","i","m","e","."," ","P","l","e","a","s","e"," ","t","r","y"," ","a","g","a","i","n",".">>

\* lines 434-450
HandleRemind ==
    /\ Branch(command) = "remind"
    /\ UNCHANGED <<contextVars, weatherVars>>
    /\ \E o \in ListenOutcomes(ReminderInputs) :
        IF ~Usable(o.t)
        THEN /\ Returns("continue", <<<<"W","h","a","t"," ","s","h","o","u","l","d"," ","I"," ","r","e","m","i","n","d"," ","y","o","u"," ","a","b","o","u","t","?">>>> \o o.say,
                        <<>>, <<>>, <<o.t>>)
             /\ UNCHANGED reminderVars
        ELSE \E m \in ListenOutcomes(TimeInputs) :
                LET said == <<<<"W","h","a","t"," ","s","h","o","u","l","d"," ","I"," ","r","e","m","i","n","d"," ","y","o","u"," ","a","b","o","u","t","?">>>> \o o.say \o <<AskTime>> \o m.say
                    digits == FirstNumber(m.t)
                IN  IF digits = <<>>
                    THEN /\ Returns("continue", said \o <<BadTime>>, <<>>, <<>>, <<o.t, m.t>>)
                         /\ UNCHANGED reminderVars
                    ELSE /\ Returns("continue",
                                    said \o <<ReminderSetText(o.t, ParseInt(digits))>>,
                                    <<>>, <<>>, <<o.t, m.t>>)
                         /\ active_reminders' = RemindersAfterSet(o.t, ParseInt(digits))
                         /\ threads' = ThreadsAfterSet(o.t, ParseInt(digits))

VolumeKey(b) ==
    IF b = "volume up" THEN <<<<"v","o","l","u","m","e","u","p">>, 3>>
    ELSE IF b = "volume down" THEN <<<<"v","o","l","u","m","e","d","o","w","n">>, 3>>
    ELSE <<<<"v","o","l","u","m","e","m","u","t","e">>, 1>>

VolumeSpeech(b) ==
    IF b = "volume up" THEN <<"V","o","l","u","m","e"," ","i","n","c","r","e","a","s","e","d">>
    ELSE IF b = "volume down" THEN <<"V","o","l","u","m","e"," ","d","e","c","r","e","a","s","e","d">>
    ELSE <<"A","u","d","i","o"," ","m","u","t","e","d">>

\* lines 453-475
HandleVolume ==
    /\ Branch(command) \in {"volume up", "volume down", "mute"}
    /\ IF PYAUTOGUI_AVAILABLE
       THEN Returns("continue", <<VolumeSpeech(Branch(command))>>, <<>>,
                    <<VolumeKey(Branch(command))>>, <<>>)
       ELSE Returns("continue", <<<<"S","y","s","t","e","m"," ","c","o","n","t","r","o","l"," ","n","o","t"," ","a","v","a","i","l","a","b","l","e">>>>, <<>>, <<>>, <<>>)
    /\ Quiet

\* the handler ends by speaking what ask_llama returned
Asks(question, context_type, say, hs) ==
    \E chat \in ChatOutcomes :
        LET a == ask_llama(question, context_type, chat)
        IN  /\ Returns("continue", say \o <<a.response>>, <<>>, <<>>, hs)
            /\ conversation_context' = a.context
            /\ appended' = a.appended
            /\ messages' = a.messages
            /\ response' = a.response

\* lines 484-499 for a usable topic; found: wikipedia.summary returned
LooksUp(topic, say, hs) ==
    IF WIKIPEDIA_AVAILABLE
    THEN \E found \in BOOLEAN :
            IF found
            THEN /\ Returns("continue", say \o <<<<"S","u","m","m","a","r","y"," ","o","f"," ">> \o topic>>, <<>>, <<>>, hs)
                 /\ UNCHANGED contextVars
            ELSE IF llama_client
                 THEN Asks(<<"T","e","l","l"," ","m","e"," ","a","b","o","u","t"," ">> \o topic, "general", say, hs)
                 ELSE /\ Returns("continue",
                                 say \o <<<<"I"," ","d","o","n","'","t"," ","h","a","v","e"," ","d","e","t","a","i","l","e","d"," ","i","n","f","o","r","m","a","t","i","o","n"," ","a","b","o","u","t"," ">>
                                            \o topic \o <<" ","r","i","g","h","t"," ","n","o","w",".">>>>,
                                 <<>>, <<>>, hs)
                      /\ UNCHANGED contextVars
    ELSE Asks(<<"T","e","l","l"," ","m","e"," ","a","b","o","u","t"," ">> \o topic, "general", say, hs)

\* lines 478-500
HandleLookup ==
    /\ Branch(command) = "lookup"
    /\ UNCHANGED <<reminderVars, weatherVars>>
    /\ IF LookupTopic(command) # <<>>
       THEN LooksUp(LookupTopic(command), <<>>, <<>>)
       ELSE \E o \in ListenOutcomes(TopicInputs) :
                LET say == <<<<"W","h","a","t"," ","w","o","u","l","d"," ","y","o","u"," ","l","i","k","e"," ","t","o"," ","k","n","o","w"," ","a","b","o","u","t","?">>>> \o o.say
                IN  IF Usable(o.t)
                    THEN LooksUp(o.t, say, <<o.t>>)
                    ELSE /\ Returns("continue", say, <<>>, <<>>, <<o.t>>)
                         /\ UNCHANGED contextVars

\* lines 503-515
HandlePlay ==
    /\ Branch(command) = "play"
    /\ Returns("continue",
               <<IF InMusic(PlaySong(command))
                 THEN <<"P","l","a","y","i","n","g"," ">> \o PlaySong(command)
                 ELSE <<"S","e","a","r","c","h","i","n","g"," ","f","o","r"," ">> \o PlaySong(command) \o <<" ","o","n"," ","Y","o","u","T","u","b","e">>>>,
               <<PlayUrl(command)>>, <<>>, <<>>)
    /\ Quiet

\* lines 518-528
HandleConverse ==
    /\ Branch(command) = "converse"
    /\ UNCHANGED <<reminderVars, weatherVars>>
    /\ Asks(command, ContextType(command), <<>>, <<>>)

\* The first external call of a branch raises: webbrowser.open (sites, play),
\* pyautogui.press (volume keys), or the microphone of a listen() that
\* follows a prompt (google, remind, lookup without a topic).
Prompt(b) ==
    IF b = "google" THEN <<<<"W","h","a","t"," ","w","o","u","l","d"," ","y","o","u"," ","l","i","k","e"," ","m","e"," ","t","o"," ","s","e","a","r","c","h"," ","f","o","r","?">>>>
    ELSE IF b = "remind" THEN <<<<"W","h","a","t"," ","s","h","o","u","l","d"," ","I"," ","r","e","m","i","n","d"," ","y","o","u"," ","a","b","o","u","t","?">>>>
    ELSE IF b = "lookup" THEN <<<<"W","h","a","t"," ","w","o","u","l","d"," ","y","o","u"," ","l","i","k","e"," ","t","o"," ","k","n","o","w"," ","a","b","o","u","t","?">>>>
    ELSE <<>>

CanRaise(c) ==
    \/ Branch(c) \in {"youtube", "instagram", "github", "play", "google", "remind"}
    \/ Branch(c) \in {"volume up", "volume down", "mute"} /\ PYAUTOGUI_AVAILABLE
    \/ Branch(c) = "lookup" /\ LookupTopic(c) = <<>>

HandlerRaises ==
    /\ CanRaise(command)
    /\ \E kind \in RaisedKinds : Raises(kind, Prompt(Branch(command)), <<>>)
    /\ Quiet

HandleVoiceCommand ==
    /\ pc = "handle"
    /\ branch' = Branch(command)
    /\ UNCHANGED <<cycles, wake_word, command, interrupted, envVars, calcVars, speakVars>>
    /\ \/ HandleExit
       \/ HandleSleep
       \/ HandleSite
       \/ HandleGoogle
       \/ HandleTime
       \/ HandleDate
       \/ HandleWeather
       \/ HandleCalculate
       \/ HandleRemind
       \/ HandleVolume
       \/ HandleLookup
       \/ HandlePlay
       \/ HandleConverse
       \/ HandlerRaises

(***************************************************************************)
(* voice_calculator and ask_llama called on their own.                     *)
(***************************************************************************)
VoiceCalculator ==
    /\ calc_pc = "call"
    /\ normalized' = Normalize(expression)
    /\ answer' = voice_calculator(expression)
    /\ calc_pc' = "done"
    /\ UNCHANGED <<expression, sessionVars, envVars, contextVars, reminderVars,
                   weatherVars, speakVars>>

Questions == {<<"h","e","l","l","o">>, <<"t","e","l","l"," ","m","e"," ","a"," ","s","t","o","r","y">>}

AskLlama ==
    /\ Len(appended) + 2 <= MaxAppends
    /\ \E q \in Questions, chat \in ChatOutcomes :
        LET a == ask_llama(q, ContextType(q), chat)
        IN  /\ conversation_context' = a.context
            /\ appended' = a.appended
            /\ messages' = a.messages
            /\ response' = a.response
    /\ UNCHANGED <<sessionVars, envVars, reminderVars, calcVars, weatherVars, speakVars>>

(***************************************************************************)
(* The state after __init__ (lines 139-161), and the specifications.       *)
(***************************************************************************)
SessionInit ==
    /\ pc = "listen_wake"
    /\ cycles = 0
    /\ wake_word = <<>>
    /\ command = <<>>
    /\ result = "none"
    /\ branch = "none"
    /\ spoken = <<>>
    /\ opened = <<>>
    /\ pressed = <<>>
    /\ heard = <<>>
    /\ interrupted = FALSE
    /\ raised = "none"

\* lines 51-86 and 146-154: each optional package is installed or not; the
\* client survives only if Ollama is installed and answers
EnvInit ==
    /\ llama_client \in BOOLEAN
    /\ PYAUTOGUI_AVAILABLE \in BOOLEAN
    /\ WIKIPEDIA_AVAILABLE \in BOOLEAN
    /\ REQUESTS_AVAILABLE \in BOOLEAN

\* the installations a session is run in: all optional packages or none
SessionEnvInit ==
    /\ llama_client \in BOOLEAN
    /\ PYAUTOGUI_AVAILABLE \in BOOLEAN
    /\ WIKIPEDIA_AVAILABLE = PYAUTOGUI_AVAILABLE
    /\ REQUESTS_AVAILABLE = PYAUTOGUI_AVAILABLE

ContextInit ==
    /\ conversation_context = <<>>
    /\ appended = <<>>
    /\ messages = <<>>
    /\ response = <<>>

WeatherInit == requested = <<>>

ReminderInit ==
    /\ active_reminders = <<>>
    /\ threads = <<>>

CalcIdle ==
    /\ expression = <<>>
    /\ normalized = <<>>
    /\ answer = <<>>
    /\ calc_pc = "idle"

Init ==
    /\ SessionInit /\ SessionEnvInit /\ ContextInit /\ WeatherInit /\ ReminderInit
    /\ CalcIdle /\ SpeakIdle

\* voice_calculator called with each input; it reads no state of the assistant
InitCalc ==
    /\ SessionInit /\ ContextInit /\ WeatherInit /\ ReminderInit /\ SpeakIdle
    /\ llama_client = FALSE
    /\ PYAUTOGUI_AVAILABLE = FALSE
    /\ WIKIPEDIA_AVAILABLE = FALSE
    /\ REQUESTS_AVAILABLE = FALSE
    /\ expression \in CalcInputs
    /\ normalized = <<>>
    /\ answer = <<>>
    /\ calc_pc = "call"

NextCalc == VoiceCalculator

SpecCalc == InitCalc /\ [][NextCalc]_vars

Next ==
    \/ ListenWake
    \/ ListenCommand(SessionCommands)
    \/ CaptureRaises
    \/ Interrupt
    \/ HandleVoiceCommand
    \/ \E i \in DOMAIN threads : ReminderAlert(i)
    \/ \E i \in DOMAIN threads : ReminderCheck(i)
    \/ \E i \in DOMAIN threads : ReminderRemove(i)
    \/ Tick

\* The whole session: run() with the router, the reminder threads and time.
Spec == Init /\ [][Next]_vars


\* ask_llama called again and again on a fresh assistant.
InitContext ==
    /\ SessionInit /\ ContextInit /\ WeatherInit /\ ReminderInit /\ CalcIdle /\ SpeakIdle
    /\ llama_client \in BOOLEAN
    /\ PYAUTOGUI_AVAILABLE = FALSE
    /\ WIKIPEDIA_AVAILABLE = FALSE
    /\ REQUESTS_AVAILABLE = FALSE

NextContext == AskLlama

SpecContext == InitContext /\ [][NextContext]_vars

(***************************************************************************)
(* The router on its own: the first command of a session, in every         *)
(* installation.  The transcripts are the keywords of the router, alone,   *)
(* after "please", and in pairs; "play" with every title of the library;   *)
(* and transcripts without a keyword.                                      *)
(***************************************************************************)
Keywords ==
    {<<"e","x","i","t">>, <<"q","u","i","t">>, <<"g","o","o","d","b","y","e"," ","f","r","i","d","a","y">>, <<"s","t","o","p"," ","l","i","s","t","e","n","i","n","g">>, <<"s","l","e","e","p"," ","f","r","i","d","a","y">>,
     <<"o","p","e","n"," ","y","o","u","t","u","b","e">>, <<"y","o","u","t","u","b","e">>, <<"o","p","e","n"," ","i","n","s","t","a","g","r","a","m">>, <<"i","n","s","t","a","g","r","a","m">>, <<"o","p","e","n"," ","g","i","t","h","u","b">>,
     <<"g","i","t","h","u","b">>, <<"o","p","e","n"," ","g","o","o","g","l","e">>, <<"g","o","o","g","l","e"," ","s","e","a","r","c","h">>, <<"t","i","m","e">>, <<"d","a","t","e">>, <<"w","e","a","t","h","e","r">>,
     <<"c","a","l","c","u","l","a","t","e">>, <<"m","a","t","h">>, <<"w","h","a","t"," ","i","s">>, <<"p","l","u","s">>, <<"m","i","n","u","s">>, <<"t","i","m","e","s">>, <<"d","i","v","i","d","e">>,
     <<"r","e","m","i","n","d"," ","m","e">>, <<"s","e","t"," ","r","e","m","i","n","d","e","r">>, <<"v","o","l","u","m","e"," ","u","p">>, <<"v","o","l","u","m","e"," ","d","o","w","n">>, <<"m","u","t","e">>,
     <<"t","e","l","l"," ","m","e"," ","a","b","o","u","t">>, <<"i","n","f","o","r","m","a","t","i","o","n"," ","a","b","o","u","t">>, <<"p","l","a","y">>}

PairKeywords ==
    {<<"e","x","i","t">>, <<"s","l","e","e","p"," ","f","r","i","d","a","y">>, <<"y","o","u","t","u","b","e">>, <<"i","n","s","t","a","g","r","a","m">>, <<"g","i","t","h","u","b">>, <<"o","p","e","n"," ","g","o","o","g","l","e">>,
     <<"t","i","m","e">>, <<"d","a","t","e">>, <<"w","e","a","t","h","e","r">>, <<"p","l","u","s">>, <<"t","i","m","e","s">>, <<"r","e","m","i","n","d"," ","m","e">>, <<"v","o","l","u","m","e"," ","u","p">>,
     <<"v","o","l","u","m","e"," ","d","o","w","n">>, <<"m","u","t","e">>, <<"t","e","l","l"," ","m","e"," ","a","b","o","u","t">>, <<"p","l","a","y">>}

RouteInputs ==
    Keywords
    \cup {<<"p","l","e","a","s","e"," ">> \o k : k \in Keywords}
    \cup {k1 \o <<" ">> \o k2 : k1 \in PairKeywords, k2 \in PairKeywords}
    \cup {<<"p","l","a","y"," ">> \o music[m][1] : m \in DOMAIN music}
    \cup {<<"p","l","a","y"," ","s","o","m","e"," ","u","n","k","n","o","w","n"," ","t","i","t","l","e">>, <<"g","o","o","d"," ","m","o","r","n","i","n","g">>, <<"h","o","w"," ","t","o"," ","b","a","k","e"," ","b","r","e","a","d">>,
          <<"w","r","i","t","e"," ","a"," ","p","o","e","m">>, <<"w","e","a","t","h","e","r"," ","i","n"," ","m","u","m","b","a","i">>, <<"w","h","a","t"," ","i","s"," ","f","i","v","e"," ","t","i","m","e","s"," ","t","h","r","e","e">>,
          <<"h","o","w"," ","m","a","n","y"," ","t","i","m","e","s">>}

InitRoute ==
    /\ pc = "handle"
    /\ cycles = 1
    /\ wake_word = <<"h","e","y"," ","f","r","i","d","a","y">>
    /\ command \in RouteInputs
    /\ result = "none"
    /\ branch = "none"
    /\ spoken = <<<<"Y","e","s"," ","b","o","s","s",","," ","I","'","m"," ","l","i","s","t","e","n","i","n","g","!">>>>
    /\ opened = <<>>
    /\ pressed = <<>>
    /\ heard = <<>>
    /\ interrupted = FALSE
    /\ raised = "none"
    /\ EnvInit /\ ContextInit /\ WeatherInit /\ ReminderInit /\ CalcIdle /\ SpeakIdle

NextRoute == HandleVoiceCommand

SpecRoute == InitRoute /\ [][NextRoute]_vars

\* Invocations of speak() that overlap: a reminder alert and a sentence of
\* the main loop, or several alerts.
InitSpeak ==
    /\ SessionInit /\ ContextInit /\ WeatherInit /\ ReminderInit /\ CalcIdle
    /\ llama_client = FALSE
    /\ PYAUTOGUI_AVAILABLE = FALSE
    /\ WIKIPEDIA_AVAILABLE = FALSE
    /\ REQUESTS_AVAILABLE = FALSE
    /\ clock = 0
    /\ files = <<>>
    /\ \E n \in 1..MaxSpeakers :
            speakers \in {[i \in 1..n |-> Speaker(t[i])] : t \in [1..n -> SpeakTexts]}

NextSpeak ==
    \/ \E i \in DOMAIN speakers : SpeakName(i) \/ SpeakSave(i) \/ SpeakPlay(i) \/ SpeakRemove(i)
    \/ ClockTick

SpecSpeak == InitSpeak /\ [][NextSpeak]_vars

(***************************************************************************)
(* The properties.                                                         *)
(***************************************************************************)
\* the state of the session state machine the main thread is in
State ==
    IF pc = "listen_wake" THEN "AwaitingWake"
    ELSE IF pc = "done" THEN "Terminated"
    ELSE "AwaitingCommand"

\* this step routes the captured command
Routed == pc = "handle" /\ branch' # "none"

C1_ExitKeywords == {<<"e","x","i","t">>, <<"q","u","i","t">>, <<"g","o","o","d","b","y","e"," ","f","r","i","d","a","y">>}

\* C1: a routed command that contains an exit keyword, whatever else it
\* contains, makes handle_voice_command return "exit" without another
\* capture, the loop ends with that step, and nothing is captured once the
\* loop has ended.
C1_ExitTerminates ==
    /\ [][(Routed /\ \E k \in C1_ExitKeywords : Contains(command, k))
            => (result' = "exit" /\ pc' = "done" /\ heard' = <<>>)]_vars
    /\ [][pc = "done" => (pc' = "done" /\ UNCHANGED <<wake_word, command, heard>>)]_vars

C1_Witness ==
    /\ pc = "done"
    /\ result = "exit"
    /\ command = <<"w","h","a","t"," ","t","i","m","e"," ","i","s"," ","i","t"," ","b","e","f","o","r","e"," ","i"," ","q","u","i","t">>

C2_Messages ==
    {<<"I"," ","e","n","c","o","u","n","t","e","r","e","d"," ","a","n"," ","e","r","r","o","r",","," ","b","u","t"," ","I","'","m"," ","s","t","i","l","l"," ","h","e","r","e"," ","t","o"," ","h","e","l","p","!">>,
     <<"S","p","e","e","c","h"," ","r","e","c","o","g","n","i","t","i","o","n"," ","s","e","r","v","i","c","e"," ","i","s"," ","h","a","v","i","n","g"," ","i","s","s","u","e","s","."," ","P","l","e","a","s","e"," ","c","h","e","c","k"," ","y","o","u","r"," ","i","n","t","e","r","n","e","t"," ","c","o","n","n","e","c","t","i","o","n",".">>}

\* C2: the loop ends only with a routed command that returned "exit" or with
\* an interrupt; a step in which a capture or a handler raises anything else
\* ends with a spoken message and the loop back at the wake-word capture.
C2_OnlyExitOrInterruptTerminates ==
    /\ [][(pc # "done" /\ pc' = "done")
            => ((Routed /\ result' = "exit") \/ interrupted')]_vars
    /\ [][(raised' # "none" /\ <<raised, spoken, pc>>' # <<raised, spoken, pc>>)
            => /\ State' = "AwaitingWake"
               /\ ~interrupted'
               /\ spoken' # <<>>
               /\ spoken'[Len(spoken')] \in C2_Messages]_vars

C2_Witness ==
    /\ raised = "Exception"
    /\ branch = "youtube"
    /\ State = "AwaitingWake"

\* the entries of the active list equal to r, and the threads started for r
\* that have not yet removed theirs
EntriesOf(r) == Cardinality({i \in DOMAIN active_reminders : active_reminders[i] = r})

OutstandingFor(r) ==
    Cardinality({i \in DOMAIN threads :
        Reminder(threads[i].text, threads[i].minutes) = r /\ threads[i].pc \in {"sleep", "check", "remove"}})

\* C3 as claimed: once its delay has elapsed, every scheduled reminder has
\* spoken its alert exactly once, in every execution, also one that has ended.
C3_Original ==
    \A i \in DOMAIN threads :
        (threads[i].remaining = 0 /\ ~Alive) => threads[i].alerts = 1

\* C3 as amended: a scheduled reminder is in the active list; its thread
\* speaks "Reminder alert! <message>" once, never before the delay has
\* elapsed, and can always go on while the process runs; its removal takes
\* its own entry, so that the list holds one entry per reminder not yet
\* removed.
C3_AlertOnceThenRemoved ==
    \A i \in DOMAIN threads :
        LET t == threads[i]
            r == Reminder(t.text, t.minutes)
        IN  /\ t.alerts = (IF t.pc = "sleep" THEN 0 ELSE 1)
            /\ t.alerts = 1 => (t.remaining = 0 /\ t.said = <<"R","e","m","i","n","d","e","r"," ","a","l","e","r","t","!"," ">> \o t.text)
            /\ t.pc \in {"sleep", "check", "remove", "done"}
            /\ EntriesOf(r) = OutstandingFor(r)
            /\ (Alive /\ t.pc # "done")
                => ENABLED (ReminderAlert(i) \/ ReminderCheck(i) \/ ReminderRemove(i) \/ Tick)

C3_Witness ==
    /\ Alive
    /\ Len(threads) = 2
    /\ threads[1].pc = "done"
    /\ threads[1].alerts = 1
    /\ threads[1].minutes = 1
    /\ threads[2].pc = "sleep"
    /\ active_reminders = <<Reminder(threads[2].text, threads[2].minutes)>>

Min(a, b) == IF a < b THEN a ELSE b

\* C4: after k appends the buffer holds the last min(k, 20) turns appended,
\* in the order they were appended, and never more than 20.
C4_LastTwentyInOrder ==
    LET k == Len(appended)
        n == Len(conversation_context)
    IN  /\ n = Min(k, 20)
        /\ \A j \in 1..n : conversation_context[j] = appended[k - n + j]

C4_Witness ==
    /\ Len(appended) >= 25
    /\ Len(conversation_context) = 20
    /\ conversation_context[1] # appended[1]

C6_Rules ==
    << <<"exit", {<<"e","x","i","t">>, <<"q","u","i","t">>, <<"g","o","o","d","b","y","e"," ","f","r","i","d","a","y">>}>>,
       <<"sleep", {<<"s","t","o","p"," ","l","i","s","t","e","n","i","n","g">>, <<"s","l","e","e","p"," ","f","r","i","d","a","y">>}>>,
       <<"youtube", {<<"o","p","e","n"," ","y","o","u","t","u","b","e">>, <<"y","o","u","t","u","b","e">>}>>,
       <<"instagram", {<<"o","p","e","n"," ","i","n","s","t","a","g","r","a","m">>, <<"i","n","s","t","a","g","r","a","m">>}>>,
       <<"github", {<<"o","p","e","n"," ","g","i","t","h","u","b">>, <<"g","i","t","h","u","b">>}>>,
       <<"google", {<<"o","p","e","n"," ","g","o","o","g","l","e">>, <<"g","o","o","g","l","e"," ","s","e","a","r","c","h">>}>>,
       <<"time", {<<"t","i","m","e">>}>>,
       <<"date", {<<"d","a","t","e">>}>>,
       <<"weather", {<<"w","e","a","t","h","e","r">>}>>,
       <<"calculate", {<<"c","a","l","c","u","l","a","t","e">>, <<"m","a","t","h">>, <<"w","h","a","t"," ","i","s">>, <<"p","l","u","s">>, <<"m","i","n","u","s">>, <<"t","i","m","e","s">>, <<"d","i","v","i","d","e">>}>>,
       <<"remind", {<<"r","e","m","i","n","d"," ","m","e">>, <<"s","e","t"," ","r","e","m","i","n","d","e","r">>}>>,
       <<"volume up", {<<"v","o","l","u","m","e"," ","u","p">>}>>,
       <<"volume down", {<<"v","o","l","u","m","e"," ","d","o","w","n">>}>>,
       <<"mute", {<<"m","u","t","e">>}>>,
       <<"lookup", {<<"t","e","l","l"," ","m","e"," ","a","b","o","u","t">>, <<"i","n","f","o","r","m","a","t","i","o","n"," ","a","b","o","u","t">>}>>,
       <<"play", {<<"p","l","a","y">>}>> >>

\* rule i applies to transcript t: one of its keywords occurs in t; with
\* `prefix`, the play rule applies only to a transcript that starts with it
C6_Applies(i, t, prefix) ==
    IF prefix /\ C6_Rules[i][1] = "play" THEN StartsWith(t, <<"p","l","a","y">>)
    ELSE \E k \in C6_Rules[i][2] : Contains(t, k)

C6_First(t, prefix) ==
    IF \E i \in DOMAIN C6_Rules : C6_Applies(i, t, prefix)
    THEN C6_Rules[CHOOSE i \in DOMAIN C6_Rules :
            /\ C6_Applies(i, t, prefix)
            /\ \A j \in 1..(i - 1) : ~C6_Applies(j, t, prefix)][1]
    ELSE "converse"

\* C6 as claimed: the branch that runs is that of the first rule, in the
\* order claimed, one of whose keywords occurs in the transcript.
C6_Original == branch # "none" => branch = C6_First(command, FALSE)

\* C6 as amended: the same, except that the play rule applies only to a
\* transcript that starts with "play".
C6_FirstMatchWins == branch # "none" => branch = C6_First(command, TRUE)

C6_Witness ==
    /\ command = <<"w","e","a","t","h","e","r"," ","t","i","m","e">>
    /\ branch = "time"
    /\ result = "continue"

\* C7: "play <title>" opens the URL mapped to the title, and "play <text>"
\* for any other text the search URL of the text with "+" for each blank.
C7_Original ==
    (result = "continue" /\ StartsWith(command, <<"p","l","a","y"," ">>))
        => LET text == SubSeq(command, 6, Len(command))
           IN  opened = <<IF InMusic(text) THEN MusicUrl(text)
                           ELSE <<"h","t","t","p","s",":","/","/","w","w","w",".","y","o","u","t","u","b","e",".","c","o","m","/","r","e","s","u","l","t","s","?","s","e","a","r","c","h","_","q","u","e","r","y","=">>
                                    \o Replace(text, <<" ">>, <<"+">>)>>

\* C8: a number word from zero to twenty is rewritten to its own digits and
\* answered with that number.
C8_Original ==
    calc_pc = "done"
        => \A n \in 0..20 :
            expression = NumberWord(n)
                => (normalized = IntToStr(n) /\ answer = <<"T","h","e"," ","a","n","s","w","e","r"," ","i","s"," ">> \o IntToStr(n))

C9_Fillers == {<<"w","h","a","t"," ","i","s"," ">>, <<"c","a","l","c","u","l","a","t","e"," ">>}

C9_Operators == {<<<<"p","l","u","s">>, <<"+">>>>, <<<<"m","i","n","u","s">>, <<"-">>>>, <<<<"t","i","m","e","s">>, <<"*">>>>}

C9_Value(a, sym, b) ==
    IF sym = <<"+">> THEN a + b ELSE IF sym = <<"-">> THEN a - b ELSE a * b

\* the phrases of C9 hold for the finished call: `sep` stands between the
\* digits and the operator symbol
C9_Holds(sep) ==
    calc_pc = "done"
        => \A f \in C9_Fillers, a \in 0..10, op \in C9_Operators, b \in 0..10 :
            expression = f \o Phrase(NumberWord(a), op[1], NumberWord(b))
                => /\ normalized = IntToStr(a) \o sep \o op[2] \o sep \o IntToStr(b)
                   /\ answer = <<"T","h","e"," ","a","n","s","w","e","r"," ","i","s"," ">> \o IntToStr(C9_Value(a, op[2], b))

\* C9 as claimed: "what is five plus three" is normalised to "5+3" and
\* answered with 8.
C9_Original == C9_Holds(<<>>)

\* C9 as amended: it is normalised to "5 + 3", the blanks of the phrase
\* kept, and answered with 8.
C9_DigitsOperatorDigits == C9_Holds(<<" ">>)

C9_Witness ==
    /\ calc_pc = "done"
    /\ expression = <<"c","a","l","c","u","l","a","t","e"," ","t","e","n"," ","t","i","m","e","s"," ","t","e","n">>
    /\ normalized = <<"1","0"," ","*"," ","1","0">>
    /\ answer = <<"T","h","e"," ","a","n","s","w","e","r"," ","i","s"," ","1","0","0">>

C10_NumericCharacters == {"0", "1", "2", "3", "4", "5", "6", "7", "8", "9", "+", "-", "*", "/", ".", "(", ")", " "}

\* C10: an input that is not a numeric expression once normalised is
\* answered with the failure message, never with an answer.
C10_Original ==
    (calc_pc = "done" /\ \E i \in DOMAIN normalized : normalized[i] \notin C10_NumericCharacters)
        => answer = <<"I"," ","c","o","u","l","d","n","'","t"," ","c","a","l","c","u","l","a","t","e"," ","t","h","a","t","."," ","P","l","e","a","s","e"," ","t","r","y"," ","r","e","p","h","r","a","s","i","n","g"," ","t","h","e"," ","m","a","t","h"," ","p","r","o","b","l","e","m",".">>


\* the sentence the handler spoke last
LastSpoken == IF spoken = <<>> THEN <<>> ELSE spoken[Len(spoken)]

C11_KeyMessage == <<"P","l","e","a","s","e"," ","c","o","n","f","i","g","u","r","e"," ","w","e","a","t","h","e","r"," ","A","P","I"," ","k","e","y"," ","f","o","r"," ","w","e","a","t","h","e","r"," ","u","p","d","a","t","e","s",".">>

\* C11 as claimed: without a credential the weather branch answers every
\* city with the credential message, in every installation, sends no
\* request and raises nothing.
C11_Original ==
    (branch = "weather" /\ api_key = <<"Y","O","U","R","_","W","E","A","T","H","E","R","_","A","P","I","_","K","E","Y">>)
        => (LastSpoken = C11_KeyMessage /\ requested = <<>> /\ raised = "none")

\* C11 as amended: it does so where the requests package is installed;
\* where it is not, the answer is the message that asks for the package;
\* in both cases no request is sent and nothing is raised.
C11_NoCredentialNoRequest ==
    (branch = "weather" /\ api_key = <<"Y","O","U","R","_","W","E","A","T","H","E","R","_","A","P","I","_","K","E","Y">>)
        => /\ LastSpoken = (IF REQUESTS_AVAILABLE THEN C11_KeyMessage
                             ELSE <<"W","e","a","t","h","e","r"," ","s","e","r","v","i","c","e"," ","r","e","q","u","i","r","e","s"," ","t","h","e"," ","r","e","q","u","e","s","t","s"," ","p","a","c","k","a","g","e","."," ","P","l","e","a","s","e"," ","i","n","s","t","a","l","l"," ","i","t",".">>)
           /\ requested = <<>>
           /\ raised = "none"
           /\ result = "continue"

C11_Witness ==
    /\ branch = "weather"
    /\ command = <<"w","e","a","t","h","e","r"," ","i","n"," ","m","u","m","b","a","i">>
    /\ WeatherCity(command) = <<"m","u","m","b","a","i">>
    /\ REQUESTS_AVAILABLE
    /\ LastSpoken = C11_KeyMessage

\* C12: under every interleaving of overlapping invocations of speak(), an
\* invocation that has ended has played its own text and has not failed
\* for want of its file.
C12_Original ==
    \A i \in DOMAIN speakers :
        speakers[i].pc = "done"
            => (speakers[i].played = speakers[i].text /\ ~speakers[i].failed)

C13_EarlierKeywords ==
    {<<"e","x","i","t">>, <<"q","u","i","t">>, <<"g","o","o","d","b","y","e"," ","f","r","i","d","a","y">>, <<"s","t","o","p"," ","l","i","s","t","e","n","i","n","g">>, <<"s","l","e","e","p"," ","f","r","i","d","a","y">>,
     <<"o","p","e","n"," ","y","o","u","t","u","b","e">>, <<"y","o","u","t","u","b","e">>, <<"o","p","e","n"," ","i","n","s","t","a","g","r","a","m">>, <<"i","n","s","t","a","g","r","a","m">>, <<"o","p","e","n"," ","g","i","t","h","u","b">>,
     <<"g","i","t","h","u","b">>, <<"o","p","e","n"," ","g","o","o","g","l","e">>, <<"g","o","o","g","l","e"," ","s","e","a","r","c","h">>}

\* C13: a routed transcript with "times" and no exit, sleep or site keyword
\* runs the time branch, which says the time and never calls the
\* calculator; the calculator branch runs only for transcripts without
\* "time", "date" and "weather".
C13_TimesIsTime ==
    branch # "none"
        => /\ (Contains(command, <<"t","i","m","e","s">>)
                /\ \A k \in C13_EarlierKeywords : ~Contains(command, k))
                => (branch = "time" /\ \E t \in ClockTimes : LastSpoken = <<"I","t","'","s"," ">> \o t)
           /\ branch = "calculate"
                => /\ ~Contains(command, <<"t","i","m","e">>)
                   /\ ~Contains(command, <<"d","a","t","e">>)
                   /\ ~Contains(command, <<"w","e","a","t","h","e","r">>)
                   /\ LastSpoken = voice_calculator(command)

C13_Witness ==
    /\ command = <<"w","h","a","t"," ","i","s"," ","f","i","v","e"," ","t","i","m","e","s"," ","t","h","r","e","e">>
    /\ branch = "time"
    /\ result = "continue"

\* the pair of the i-th reminder scheduled, and whether its thread has yet
\* to perform its removal
PairOf(i) == Reminder(threads[i].text, threads[i].minutes)

Outstanding(i) == threads[i].pc \in {"sleep", "check", "remove"}

\* C14: the active list holds one entry per scheduled reminder whose thread
\* has not yet removed its entry, also for reminders with the same pair that
\* fire together or while another is scheduled; no removal fails; and the
\* list is empty once every reminder has fired and removed its entry.
C14_OneEntryPerOutstanding ==
    /\ Len(active_reminders) = Cardinality({i \in DOMAIN threads : Outstanding(i)})
    /\ \A i \in DOMAIN threads :
        /\ threads[i].pc # "crashed"
        /\ Cardinality({j \in DOMAIN active_reminders : active_reminders[j] = PairOf(i)})
            = Cardinality({k \in DOMAIN threads : PairOf(k) = PairOf(i) /\ Outstanding(k)})
    /\ \A j \in DOMAIN active_reminders :
        \E i \in DOMAIN threads : Outstanding(i) /\ PairOf(i) = active_reminders[j]
    /\ (\A i \in DOMAIN threads : threads[i].pc = "done") => active_reminders = <<>>

C14_Witness ==
    /\ Len(threads) = 2
    /\ PairOf(1) = PairOf(2)
    /\ threads[1].pc = "remove"
    /\ threads[2].pc = "remove"
    /\ Len(active_reminders) = 2

C15_FallbackTexts == {fallback_responses[k][2] : k \in DOMAIN fallback_responses}

\* the buffer and the record of appends after the exchange (q, a)
C15_Appended(q, a) ==
    /\ appended' = appended \o <<Turn("user", q), Turn("assistant", a)>>
    /\ conversation_context'
        = LastN(conversation_context \o <<Turn("user", q), Turn("assistant", a)>>, 20)

\* C15: a call of ask_llama without a client leaves the buffer as it was
\* and returns one of the fallback texts; a call whose chat request raises
\* leaves the buffer as it was and returns the trouble text; the buffer
\* changes only with a chat that answered, by the user turn followed by the
\* assistant turn.
C15_FailureLeavesBuffer ==
    [][/\ ~llama_client
            => /\ UNCHANGED <<conversation_context, appended, messages>>
               /\ response' \in C15_FallbackTexts
       /\ response' = LlamaTrouble => UNCHANGED <<conversation_context, appended>>
       /\ (conversation_context' # conversation_context \/ appended' # appended)
            => /\ llama_client
               /\ response' \notin C15_FallbackTexts \cup {LlamaTrouble}
               /\ \E q \in Questions : C15_Appended(q, response')]_vars

C15_Witness ==
    /\ llama_client
    /\ response = LlamaTrouble
    /\ Len(conversation_context) = 2
    /\ conversation_context = appended
    /\ Len(messages) = 4

\* s is a sequence of complete exchanges: user, assistant, user, ...
C16_Exchanges(s) ==
    /\ Len(s) % 2 = 0
    /\ \A j \in DOMAIN s : s[j].role = (IF j % 2 = 1 THEN "user" ELSE "assistant")

\* C16: the buffer always has even length with the roles alternating from a
\* user turn, and the history of every chat request, between the system
\* prompt and the question, is at most 6 entries of complete exchanges.
C16_CompleteExchanges ==
    /\ C16_Exchanges(conversation_context)
    /\ messages # <<>>
        => /\ messages[1].role = "system"
           /\ messages[Len(messages)].role = "user"
           /\ Len(messages) <= 8
           /\ C16_Exchanges(SubSeq(messages, 2, Len(messages) - 1))

C16_Witness ==
    /\ Len(appended) > 20
    /\ Len(conversation_context) = 20
    /\ Len(messages) = 8
    /\ messages[2] = conversation_context[13]
=============================================================================
